---------------------------- MODULE Spec2Model ----------------------------
(***************************************************************************)
(* The external scanner of tree-sitter-abc (src/tree-sitter-abc/src/       *)
(* scanner.c) as a state machine.                                          *)
(*                                                                         *)
(* The cursor is the lexer of tests/test_harness.h: an input string, a     *)
(* position that advance() moves forward by one until the end of the       *)
(* input, a marked end, a result symbol.  Characters are code points, the  *)
(* lookahead at end of input is 0.  A sub-scanner is an operator from the  *)
(* input and a scan context (cursor fields, line_number, the counters of   *)
(* the mark_end and EMIT executions of the call in progress) to the scan   *)
(* context it leaves, whose field ok is its return value.                  *)
(***************************************************************************)
EXTENDS Integers, Sequences, FiniteSets, TLC

VARIABLES
  input,          \* the text under the cursor (g_mock_state.input)
  lexer,          \* [pos, mark_pos, result_symbol] of the cursor
  state,          \* ScannerState: [in_tune_body, in_text_block, line_number]
  pc,             \* "idle" between scan calls, "scan" while a call is pending
  valid_symbols,  \* the mask of the pending call (a set of token kinds)
  call,           \* what the last scan call did: [start, ret, marks, emits]
  buffer,         \* the bytes last written by serialize
  run,            \* a scripted run: its masks, its outcomes, its checkpoint
                  \* and the session restored from the checkpoint
  helper          \* the native helper: its AppState and its command loop

vars == <<input, lexer, state, pc, valid_symbols, call, buffer, run, helper>>

---------------------------------------------------------------------------
(* Bounds of the model *)

MaxLen == 2

---------------------------------------------------------------------------
(* Characters: the code points of the character literals of scanner.c *)

Ord ==
  [c \in {"TAB", "LF", "CR", " ", "!", "DQUOTE", "#", "$", "%", "&", "APOS", "(",
          ")", "*", "+", ",", "-", ".", "/", "0", "1", "9", ":", ";", "<", "=",
          ">", "?", "@", "A", "B", "C", "G", "H", "K", "L", "M", "O", "P", "R", "S",
          "T", "U", "W", "X", "Y", "Z", "[", "BSLASH", "]", "^", "_", "BTICK", "a", "g",
          "h", "m", "s", "u", "v", "w", "x", "y", "z", "{", "|", "}", "~"} |->
    CASE c = "TAB" -> 9   [] c = "LF" -> 10  [] c = "CR" -> 13  [] c = " " -> 32
      [] c = "!" -> 33   [] c = "DQUOTE" -> 34  [] c = "#" -> 35   [] c = "$" -> 36
      [] c = "%" -> 37   [] c = "&" -> 38   [] c = "APOS" -> 39   [] c = "(" -> 40
      [] c = ")" -> 41   [] c = "*" -> 42   [] c = "+" -> 43   [] c = "," -> 44
      [] c = "-" -> 45   [] c = "." -> 46   [] c = "/" -> 47   [] c = "0" -> 48
      [] c = "1" -> 49   [] c = "B" -> 66   [] c = "K" -> 75
      [] c = "9" -> 57   [] c = ":" -> 58   [] c = ";" -> 59   [] c = "<" -> 60
      [] c = "=" -> 61   [] c = ">" -> 62   [] c = "?" -> 63   [] c = "@" -> 64
      [] c = "A" -> 65   [] c = "C" -> 67   [] c = "G" -> 71   [] c = "H" -> 72
      [] c = "L" -> 76   [] c = "M" -> 77   [] c = "O" -> 79   [] c = "P" -> 80
      [] c = "R" -> 82   [] c = "S" -> 83   [] c = "T" -> 84   [] c = "U" -> 85
      [] c = "W" -> 87   [] c = "X" -> 88   [] c = "Y" -> 89
      [] c = "Z" -> 90   [] c = "[" -> 91
      [] c = "BSLASH" -> 92  [] c = "]" -> 93   [] c = "^" -> 94   [] c = "_" -> 95
      [] c = "BTICK" -> 96   [] c = "a" -> 97   [] c = "g" -> 103  [] c = "h" -> 104
      [] c = "m" -> 109  [] c = "s" -> 115  [] c = "u" -> 117  [] c = "v" -> 118
      [] c = "w" -> 119  [] c = "x" -> 120  [] c = "y" -> 121  [] c = "z" -> 122
      [] c = "{" -> 123  [] c = "|" -> 124  [] c = "}" -> 125  [] c = "~" -> 126]

(* Character classes *)

is_ws_char(c) == c \in {Ord[" "], Ord["TAB"]}

is_note_letter(c) == c \in (Ord["a"]..Ord["g"]) \cup (Ord["A"]..Ord["G"])

is_octave_char(c) == c \in {Ord["APOS"], Ord[","]}

is_rest_char(c) == c \in {Ord["z"], Ord["Z"], Ord["x"], Ord["X"]}

is_decoration_char(c) ==
  c \in {Ord["."], Ord["~"], Ord["H"], Ord["L"], Ord["M"], Ord["O"], Ord["P"],
         Ord["R"], Ord["S"], Ord["T"], Ord["u"], Ord["v"]}

is_digit(c) == c \in Ord["0"]..Ord["9"]

is_broken_rhythm_char(c) == c \in {Ord["<"], Ord[">"]}

is_alpha(c) == c \in (Ord["a"]..Ord["z"]) \cup (Ord["A"]..Ord["Z"])

is_identifier_start(c) == is_alpha(c) \/ c = Ord["_"]

is_identifier_char(c) == is_alpha(c) \/ is_digit(c) \/ c \in {Ord["_"], Ord["-"]}

---------------------------------------------------------------------------
(* The cursor and the helper macros *)

PEEK(in, X) == IF X.pos < Len(in) THEN in[X.pos + 1] ELSE 0

EOF_REACHED(in, X) == X.pos >= Len(in)

(* lexer->advance(lexer, false): the mock moves the cursor unless it is at  *)
(* the end of the input; advances counts the invocations                    *)
ADVANCE(in, X) ==
  [X EXCEPT !.pos = IF X.pos < Len(in) THEN @ + 1 ELSE @, !.advances = @ + 1]

MARK_END(X) == [X EXCEPT !.mark_pos = X.pos, !.marks = @ + 1]

EMIT(X, type) == [X EXCEPT !.result_symbol = type, !.ok = TRUE, !.emits = @ + 1]

(* while (P(PEEK)) ADVANCE(); with P given as the set of its code points *)
RECURSIVE AdvanceWhile(_, _, _)
AdvanceWhile(in, X, S) ==
  IF PEEK(in, X) \in S THEN AdvanceWhile(in, ADVANCE(in, X), S) ELSE X

(* while (!EOF_REACHED && PEEK is none of Stop) ADVANCE(); *)
RECURSIVE AdvanceUntil(_, _, _)
AdvanceUntil(in, X, Stop) ==
  IF ~EOF_REACHED(in, X) /\ PEEK(in, X) \notin Stop
    THEN AdvanceUntil(in, ADVANCE(in, X), Stop)
    ELSE X

WsChars == {Ord[" "], Ord["TAB"]}
Digits == Ord["0"]..Ord["9"]
LineEnd == {Ord["LF"], Ord["CR"]}


(* return false; *)
NoMatch(X) == [X EXCEPT !.ok = FALSE]

(* a matcher of one character taking the whole run of them *)
SingleChar_run(in, X, S, type) ==
  IF PEEK(in, X) \notin S THEN NoMatch(X)
  ELSE EMIT(MARK_END(AdvanceWhile(in, X, S)), type)

(* if (PEEK is not in S) return false; ADVANCE(); MARK_END(); EMIT(type); *)
SingleChar(in, X, S, type) ==
  IF PEEK(in, X) \notin S THEN NoMatch(X)
  ELSE EMIT(MARK_END(ADVANCE(in, X)), type)

(* uint16_t line_number; state->line_number++; *)
IncLine(X) == [X EXCEPT !.line_number = (@ + 1) % 65536]

---------------------------------------------------------------------------
(* Token scanning functions *)

scan_whitespace(in, X) ==
  IF ~is_ws_char(PEEK(in, X)) THEN NoMatch(X)
  ELSE EMIT(MARK_END(AdvanceWhile(in, X, WsChars)), "WS")

(* a percent matcher that gives the line back when its kind is not valid *)
scan_percent_token_rewound(in, X, v) ==
  IF PEEK(in, X) # Ord["%"] THEN NoMatch(X)
  ELSE
    LET X1 == ADVANCE(in, X) IN
    IF PEEK(in, X1) = Ord["%"] THEN
      IF "STYLESHEET_DIRECTIVE" \in v
        THEN EMIT(MARK_END(AdvanceUntil(in, ADVANCE(in, X1), LineEnd)),
                  "STYLESHEET_DIRECTIVE")
        ELSE NoMatch(X)
    ELSE
      IF "COMMENT" \in v
        THEN EMIT(MARK_END(AdvanceUntil(in, X1, LineEnd)), "COMMENT")
        ELSE NoMatch(X)

scan_percent_token(in, X, v) ==
  IF PEEK(in, X) # Ord["%"] THEN NoMatch(X)
  ELSE
    LET X1 == ADVANCE(in, X) IN
    IF PEEK(in, X1) = Ord["%"] THEN
      LET X2 == MARK_END(AdvanceUntil(in, ADVANCE(in, X1), LineEnd)) IN
      IF "STYLESHEET_DIRECTIVE" \in v THEN EMIT(X2, "STYLESHEET_DIRECTIVE")
      ELSE NoMatch(X2)
    ELSE
      LET X2 == MARK_END(AdvanceUntil(in, X1, LineEnd)) IN
      IF "COMMENT" \in v THEN EMIT(X2, "COMMENT") ELSE NoMatch(X2)

(* a note letter matcher that steps over the character it rejects *)
scan_note_letter_eager(in, X) ==
  IF ~is_note_letter(PEEK(in, X)) THEN NoMatch(ADVANCE(in, X))
  ELSE EMIT(MARK_END(ADVANCE(in, X)), "NOTE_LETTER")

scan_note_letter(in, X) ==
  IF ~is_note_letter(PEEK(in, X)) THEN NoMatch(X)
  ELSE EMIT(MARK_END(ADVANCE(in, X)), "NOTE_LETTER")

(* an accidental matcher that takes the whole run of accidental characters *)
scan_accidental_run(in, X) ==
  IF PEEK(in, X) \notin {Ord["^"], Ord["_"], Ord["="]} THEN NoMatch(X)
  ELSE EMIT(MARK_END(AdvanceWhile(in, X, {Ord["^"], Ord["_"], Ord["="]})),
            "ACCIDENTAL")

scan_accidental(in, X) ==
  IF PEEK(in, X) = Ord["^"] THEN
    LET X1 == ADVANCE(in, X)
        X2 == IF PEEK(in, X1) \in {Ord["^"], Ord["/"]} THEN ADVANCE(in, X1) ELSE X1
    IN EMIT(MARK_END(X2), "ACCIDENTAL")
  ELSE IF PEEK(in, X) = Ord["_"] THEN
    LET X1 == ADVANCE(in, X)
        X2 == IF PEEK(in, X1) \in {Ord["_"], Ord["/"]} THEN ADVANCE(in, X1) ELSE X1
    IN EMIT(MARK_END(X2), "ACCIDENTAL")
  ELSE IF PEEK(in, X) = Ord["="] THEN
    EMIT(MARK_END(ADVANCE(in, X)), "ACCIDENTAL")
  ELSE NoMatch(X)

scan_octave(in, X) ==
  IF ~is_octave_char(PEEK(in, X)) THEN NoMatch(X)
  ELSE EMIT(MARK_END(AdvanceWhile(in, X, {Ord["APOS"], Ord[","]})), "OCTAVE")

scan_rest(in, X) ==
  IF ~is_rest_char(PEEK(in, X)) THEN NoMatch(X)
  ELSE EMIT(MARK_END(ADVANCE(in, X)), "REST")

scan_tie(in, X) == SingleChar(in, X, {Ord["-"]}, "TIE")

DecorationChars ==
  {Ord["."], Ord["~"], Ord["H"], Ord["L"], Ord["M"], Ord["O"], Ord["P"],
   Ord["R"], Ord["S"], Ord["T"], Ord["u"], Ord["v"]}

(* a decoration matcher that takes the repetitions of its first character   *)
(* only                                                                     *)
scan_decoration_homogeneous(in, X) ==
  IF ~is_decoration_char(PEEK(in, X)) THEN NoMatch(X)
  ELSE EMIT(MARK_END(AdvanceWhile(in, X, {PEEK(in, X)})), "DECORATION")

scan_decoration(in, X) ==
  IF ~is_decoration_char(PEEK(in, X)) THEN NoMatch(X)
  ELSE EMIT(MARK_END(AdvanceWhile(in, X, DecorationChars)), "DECORATION")

scan_slur(in, X) == SingleChar(in, X, {Ord["("], Ord[")"]}, "SLUR")

scan_number(in, X) ==
  IF ~is_digit(PEEK(in, X)) THEN NoMatch(X)
  ELSE EMIT(MARK_END(AdvanceWhile(in, X, Digits)), "RHY_NUMER")

scan_rhythm_sep(in, X) == SingleChar(in, X, {Ord["/"]}, "RHY_SEP")

scan_broken_rhythm(in, X) ==
  IF ~is_broken_rhythm_char(PEEK(in, X)) THEN NoMatch(X)
  ELSE EMIT(MARK_END(AdvanceWhile(in, X, {Ord["<"], Ord[">"]})), "RHY_BRKN")

(* a barline matcher that never takes a third character *)
scan_barline_short(in, X) ==
  IF PEEK(in, X) = Ord["|"] THEN
    LET X1 == ADVANCE(in, X) IN
    IF PEEK(in, X1) \in {Ord["|"], Ord["]"], Ord[":"]} \/ is_digit(PEEK(in, X1))
      THEN EMIT(MARK_END(ADVANCE(in, X1)), "BARLINE")
      ELSE EMIT(MARK_END(X1), "BARLINE")
  ELSE IF PEEK(in, X) = Ord[":"] THEN
    LET X1 == ADVANCE(in, X) IN
    IF PEEK(in, X1) \in {Ord["|"], Ord[":"]}
      THEN EMIT(MARK_END(ADVANCE(in, X1)), "BARLINE")
      ELSE NoMatch(X1)
  ELSE IF PEEK(in, X) = Ord["["] THEN
    LET X1 == ADVANCE(in, X) IN
    IF PEEK(in, X1) = Ord["|"] \/ is_digit(PEEK(in, X1))
      THEN EMIT(MARK_END(ADVANCE(in, X1)), "BARLINE")
      ELSE NoMatch(X1)
  ELSE NoMatch(X)

scan_barline(in, X) ==
  IF PEEK(in, X) = Ord["|"] THEN
    LET X1 == ADVANCE(in, X) IN
    IF PEEK(in, X1) \in {Ord["|"], Ord["]"], Ord[":"]}
      THEN EMIT(MARK_END(ADVANCE(in, X1)), "BARLINE")
    ELSE IF is_digit(PEEK(in, X1))
      THEN EMIT(MARK_END(ADVANCE(in, X1)), "BARLINE")
    ELSE EMIT(MARK_END(X1), "BARLINE")
  ELSE IF PEEK(in, X) = Ord[":"] THEN
    LET X1 == ADVANCE(in, X) IN
    IF PEEK(in, X1) \in {Ord["|"], Ord[":"]} THEN
      LET X2 == ADVANCE(in, X1)
          X3 == IF PEEK(in, X2) = Ord["|"] THEN ADVANCE(in, X2) ELSE X2
      IN EMIT(MARK_END(X3), "BARLINE")
    ELSE NoMatch(X1)
  ELSE IF PEEK(in, X) = Ord["["] THEN
    LET X1 == ADVANCE(in, X) IN
    IF PEEK(in, X1) = Ord["|"] THEN
      LET X2 == ADVANCE(in, X1)
          X3 == IF PEEK(in, X2) = Ord[":"] THEN ADVANCE(in, X2) ELSE X2
      IN EMIT(MARK_END(X3), "BARLINE")
    ELSE IF is_digit(PEEK(in, X1))
      THEN EMIT(MARK_END(ADVANCE(in, X1)), "BARLINE")
    ELSE NoMatch(X1)
  ELSE NoMatch(X)

scan_chord_bracket(in, X) ==
  IF PEEK(in, X) = Ord["["] THEN EMIT(MARK_END(ADVANCE(in, X)), "CHRD_LEFT_BRKT")
  ELSE IF PEEK(in, X) = Ord["]"] THEN EMIT(MARK_END(ADVANCE(in, X)), "CHRD_RIGHT_BRKT")
  ELSE NoMatch(X)

scan_grace_brace(in, X) ==
  IF PEEK(in, X) = Ord["{"] THEN EMIT(MARK_END(ADVANCE(in, X)), "GRC_GRP_LEFT_BRACE")
  ELSE IF PEEK(in, X) = Ord["}"] THEN EMIT(MARK_END(ADVANCE(in, X)), "GRC_GRP_RGHT_BRACE")
  ELSE NoMatch(X)

(* the loop of scan_annotation: a backslash takes the next character with it *)
RECURSIVE AnnotationBody(_, _)
AnnotationBody(in, X) ==
  IF ~EOF_REACHED(in, X) /\ PEEK(in, X) \notin {Ord["DQUOTE"], Ord["LF"]} THEN
    IF PEEK(in, X) = Ord["BSLASH"] THEN
      LET X1 == ADVANCE(in, X) IN
      IF ~EOF_REACHED(in, X1) /\ PEEK(in, X1) # Ord["LF"]
        THEN AnnotationBody(in, ADVANCE(in, X1))
        ELSE AnnotationBody(in, X1)
    ELSE AnnotationBody(in, ADVANCE(in, X))
  ELSE X

(* an annotation matcher to which a backslash is an ordinary character *)
scan_annotation_plain(in, X) ==
  IF PEEK(in, X) # Ord["DQUOTE"] THEN NoMatch(X)
  ELSE
    LET X1 == AdvanceUntil(in, ADVANCE(in, X), {Ord["DQUOTE"], Ord["LF"]})
        X2 == IF PEEK(in, X1) = Ord["DQUOTE"] THEN ADVANCE(in, X1) ELSE X1
    IN EMIT(MARK_END(X2), "ANNOTATION")

scan_annotation(in, X) ==
  IF PEEK(in, X) # Ord["DQUOTE"] THEN NoMatch(X)
  ELSE
    LET X1 == AnnotationBody(in, ADVANCE(in, X))
        X2 == IF PEEK(in, X1) = Ord["DQUOTE"] THEN ADVANCE(in, X1) ELSE X1
    IN EMIT(MARK_END(X2), "ANNOTATION")

scan_symbol(in, X) ==
  IF PEEK(in, X) = Ord["!"] THEN
    LET X1 == AdvanceUntil(in, ADVANCE(in, X), {Ord["!"], Ord["LF"]})
        X2 == IF PEEK(in, X1) = Ord["!"] THEN ADVANCE(in, X1) ELSE X1
    IN EMIT(MARK_END(X2), "SYMBOL")
  ELSE IF PEEK(in, X) = Ord["+"] THEN
    LET X1 == AdvanceUntil(in, ADVANCE(in, X), {Ord["+"], Ord["LF"]})
        X2 == IF PEEK(in, X1) = Ord["+"] THEN ADVANCE(in, X1) ELSE X1
    IN EMIT(MARK_END(X2), "SYMBOL")
  ELSE NoMatch(X)

(* scan_info_header without the MARK_END() that precedes the first ADVANCE() *)
scan_info_header_unmarked(in, X, v) ==
  IF ~is_alpha(PEEK(in, X)) THEN NoMatch(X)
  ELSE
    LET X1 == ADVANCE(in, X) IN
    IF PEEK(in, X1) = Ord[":"] THEN EMIT(MARK_END(ADVANCE(in, X1)), "INF_HDR")
    ELSE
      LET X2 == MARK_END(X1) IN
      IF "IDENTIFIER" \in v THEN EMIT(X2, "IDENTIFIER") ELSE NoMatch(X2)

(* an info header matcher that takes a whole word before the colon *)
scan_info_header_word(in, X, v) ==
  IF ~is_alpha(PEEK(in, X)) THEN NoMatch(X)
  ELSE
    LET X1 == AdvanceWhile(in, MARK_END(X), {c \in 0..127 : is_alpha(c)}) IN
    IF PEEK(in, X1) = Ord[":"] THEN EMIT(MARK_END(ADVANCE(in, X1)), "INF_HDR")
    ELSE
      LET X2 == MARK_END(X1) IN
      IF "IDENTIFIER" \in v THEN EMIT(X2, "IDENTIFIER") ELSE NoMatch(X2)

scan_info_header(in, X, v) ==
  IF ~is_alpha(PEEK(in, X)) THEN NoMatch(X)
  ELSE
    LET X1 == ADVANCE(in, MARK_END(X)) IN
    IF PEEK(in, X1) = Ord[":"] THEN EMIT(MARK_END(ADVANCE(in, X1)), "INF_HDR")
    ELSE
      LET X2 == MARK_END(X1) IN
      IF "IDENTIFIER" \in v THEN EMIT(X2, "IDENTIFIER") ELSE NoMatch(X2)

scan_ampersand(in, X, v) ==
  IF PEEK(in, X) # Ord["&"] THEN NoMatch(X)
  ELSE
    LET X1 == MARK_END(ADVANCE(in, X)) IN
    IF "VOICE_OVRLAY" \in v THEN EMIT(X1, "VOICE_OVRLAY")
    ELSE IF "AMPERSAND" \in v THEN EMIT(X1, "AMPERSAND")
    ELSE NoMatch(X1)

scan_system_break(in, X) == SingleChar(in, X, {Ord["$"]}, "SYSTEM_BREAK")

scan_y_spacer(in, X) == SingleChar(in, X, {Ord["y"]}, "Y_SPC")

scan_backtick_spacer(in, X) == SingleChar(in, X, {Ord["BTICK"]}, "BCKTCK_SPC")

(* a line continuation that counts the line it continues *)
scan_line_continuation_counting(in, X) ==
  IF PEEK(in, X) # Ord["BSLASH"] THEN NoMatch(X)
  ELSE IncLine(EMIT(MARK_END(ADVANCE(in, X)), "LINE_CONT"))

scan_line_continuation(in, X) == SingleChar(in, X, {Ord["BSLASH"]}, "LINE_CONT")

scan_general_number(in, X) ==
  IF ~is_digit(PEEK(in, X)) THEN NoMatch(X)
  ELSE EMIT(MARK_END(AdvanceWhile(in, X, Digits)), "NUMBER")

scan_rhythm_denom(in, X) ==
  IF ~is_digit(PEEK(in, X)) THEN NoMatch(X)
  ELSE EMIT(MARK_END(AdvanceWhile(in, X, Digits)), "RHY_DENOM")

(* scan_tuplet_lparen deciding on the character after '(' before it        *)
(* consumes anything, so that a failed probe leaves the cursor in place    *)
scan_tuplet_lparen_rewound(in, X) ==
  IF PEEK(in, X) # Ord["("] THEN NoMatch(X)
  ELSE IF is_digit(PEEK(in, ADVANCE(in, X)))
    THEN EMIT(MARK_END(ADVANCE(in, X)), "TUPLET_LPAREN")
  ELSE NoMatch(X)

(* a tuplet parenthesis matcher that takes the digit into the token *)
scan_tuplet_lparen_greedy(in, X) ==
  IF PEEK(in, X) # Ord["("] THEN NoMatch(X)
  ELSE
    LET X1 == ADVANCE(in, X) IN
    IF is_digit(PEEK(in, X1))
      THEN EMIT(MARK_END(ADVANCE(in, X1)), "TUPLET_LPAREN")
      ELSE NoMatch(MARK_END(X1))

scan_tuplet_lparen(in, X) ==
  IF PEEK(in, X) # Ord["("] THEN NoMatch(X)
  ELSE
    LET X1 == ADVANCE(in, X) IN
    IF is_digit(PEEK(in, X1)) THEN EMIT(MARK_END(X1), "TUPLET_LPAREN")
    ELSE NoMatch(MARK_END(X1))

scan_tuplet_colon(in, X) == SingleChar(in, X, {Ord[":"]}, "TUPLET_COLON")

scan_inline_field_left(in, X) == SingleChar(in, X, {Ord["["]}, "INLN_FLD_LFT_BRKT")

scan_inline_field_right(in, X) == SingleChar(in, X, {Ord["]"]}, "INLN_FLD_RGT_BRKT")

scan_grace_slash(in, X) == SingleChar(in, X, {Ord["/"]}, "GRC_GRP_SLSH")

scan_equals(in, X) == SingleChar(in, X, {Ord["="]}, "EQL")

scan_slash(in, X) == SingleChar(in, X, {Ord["/"]}, "SLASH")

scan_minus(in, X) == SingleChar(in, X, {Ord["-"]}, "MINUS")

scan_plus(in, X) == SingleChar(in, X, {Ord["+"]}, "PLUS")

scan_lparen(in, X) == SingleChar(in, X, {Ord["("]}, "LPAREN")

scan_rparen(in, X) == SingleChar(in, X, {Ord[")"]}, "RPAREN")

scan_lbrace(in, X) == SingleChar(in, X, {Ord["{"]}, "LBRACE")

scan_rbrace(in, X) == SingleChar(in, X, {Ord["}"]}, "RBRACE")

scan_lbracket(in, X) == SingleChar(in, X, {Ord["["]}, "LBRACKET")

scan_rbracket(in, X) == SingleChar(in, X, {Ord["]"]}, "RBRACKET")

scan_pipe(in, X) == SingleChar(in, X, {Ord["|"]}, "PIPE")

IdentifierChars ==
  (Ord["a"]..Ord["z"]) \cup (Ord["A"]..Ord["Z"]) \cup Digits \cup {Ord["_"], Ord["-"]}

scan_identifier(in, X) ==
  IF ~is_identifier_start(PEEK(in, X)) THEN NoMatch(X)
  ELSE EMIT(MARK_END(AdvanceWhile(in, ADVANCE(in, X), IdentifierChars)), "IDENTIFIER")

(* bool has_content = false; while (...) { has_content = true; ADVANCE(); }    *)
(* if (has_content) { MARK_END(); EMIT(type); } return false;                  *)
ContentUntil(in, X, Stop, type) ==
  LET X1 == AdvanceUntil(in, X, Stop) IN
  IF X1.pos > X.pos THEN EMIT(MARK_END(X1), type) ELSE NoMatch(X1)

(* an info string that runs over the end of its line *)
scan_info_string_greedy(in, X) == ContentUntil(in, X, {}, "INFO_STR")

scan_info_string(in, X) == ContentUntil(in, X, LineEnd, "INFO_STR")

scan_escaped_char(in, X) ==
  IF PEEK(in, X) # Ord["BSLASH"] THEN NoMatch(X)
  ELSE
    LET X1 == ADVANCE(in, X)
        X2 == IF ~EOF_REACHED(in, X1) /\ PEEK(in, X1) \notin LineEnd
                THEN ADVANCE(in, X1) ELSE X1
    IN EMIT(MARK_END(X2), "ESCAPED_CHAR")

(* a chord symbol matcher that lets a backslash escape the next character *)
scan_chord_symbol_escaping(in, X) ==
  IF PEEK(in, X) # Ord["DQUOTE"] THEN NoMatch(X)
  ELSE
    LET X1 == AnnotationBody(in, ADVANCE(in, X))
        X2 == IF PEEK(in, X1) = Ord["DQUOTE"] THEN ADVANCE(in, X1) ELSE X1
    IN EMIT(MARK_END(X2), "CHORD_SYMBOL")

scan_chord_symbol(in, X) ==
  IF PEEK(in, X) # Ord["DQUOTE"] THEN NoMatch(X)
  ELSE
    LET X1 == AdvanceUntil(in, ADVANCE(in, X), {Ord["DQUOTE"], Ord["LF"]})
        X2 == IF PEEK(in, X1) = Ord["DQUOTE"] THEN ADVANCE(in, X1) ELSE X1
    IN EMIT(MARK_END(X2), "CHORD_SYMBOL")

scan_lyric_header(in, X, v) ==
  IF PEEK(in, X) \notin {Ord["w"], Ord["W"]} THEN NoMatch(X)
  ELSE
    LET is_section == PEEK(in, X) = Ord["W"]
        X1 == AdvanceWhile(in, ADVANCE(in, X), WsChars)
    IN
    IF PEEK(in, X1) = Ord[":"] THEN
      LET X2 == MARK_END(ADVANCE(in, X1)) IN
      IF is_section /\ "LY_SECT_HDR" \in v THEN EMIT(X2, "LY_SECT_HDR")
      ELSE IF "LY_HDR" \in v THEN EMIT(X2, "LY_HDR")
      ELSE NoMatch(X2)
    ELSE NoMatch(X1)

scan_lyric_tilde(in, X) == SingleChar(in, X, {Ord["~"]}, "LY_SPS")

LyricDelimiters ==
  {Ord[" "], Ord["TAB"], Ord["-"], Ord["_"], Ord["*"], Ord["~"], Ord["|"],
   Ord["BSLASH"], Ord["LF"], Ord["CR"], Ord["%"]}

scan_lyric_text(in, X) == ContentUntil(in, X, LyricDelimiters, "LY_TXT")

scan_lyric_underscore(in, X) == SingleChar(in, X, {Ord["_"]}, "LY_UNDR")

scan_lyric_hyphen(in, X) == SingleChar(in, X, {Ord["-"]}, "LY_HYPH")

scan_lyric_star(in, X) == SingleChar(in, X, {Ord["*"]}, "LY_STAR")

(* a header matcher that wants the ':' right behind the lead character *)
HeaderColon_tight(in, X, lead, type) ==
  IF PEEK(in, X) # lead THEN NoMatch(X)
  ELSE
    LET X1 == ADVANCE(in, X) IN
    IF PEEK(in, X1) = Ord[":"] THEN EMIT(MARK_END(ADVANCE(in, X1)), type)
    ELSE NoMatch(X1)

(* lead character, optional blanks, then ':' *)
HeaderColon(in, X, lead, type) ==
  IF PEEK(in, X) # lead THEN NoMatch(X)
  ELSE
    LET X1 == AdvanceWhile(in, ADVANCE(in, X), WsChars) IN
    IF PEEK(in, X1) = Ord[":"] THEN EMIT(MARK_END(ADVANCE(in, X1)), type)
    ELSE NoMatch(X1)

scan_symbol_header(in, X) == HeaderColon(in, X, Ord["s"], "SY_HDR")

scan_symbol_star(in, X) == SingleChar(in, X, {Ord["*"]}, "SY_STAR")

SymbolTextStops ==
  {Ord[" "], Ord["TAB"], Ord["%"], Ord["*"], Ord["LF"], Ord["CR"], Ord["|"]}

scan_symbol_text(in, X) == ContentUntil(in, X, SymbolTextStops, "SY_TXT")

scan_tuplet_p(in, X) ==
  IF ~is_digit(PEEK(in, X)) THEN NoMatch(X)
  ELSE EMIT(MARK_END(AdvanceWhile(in, X, Digits)), "TUPLET_P")

scan_tuplet_q(in, X) ==
  IF ~is_digit(PEEK(in, X)) THEN NoMatch(X)
  ELSE EMIT(MARK_END(AdvanceWhile(in, X, Digits)), "TUPLET_Q")

scan_tuplet_r(in, X) ==
  IF ~is_digit(PEEK(in, X)) THEN NoMatch(X)
  ELSE EMIT(MARK_END(AdvanceWhile(in, X, Digits)), "TUPLET_R")

scan_repeat_number(in, X) ==
  LET X1 == AdvanceWhile(in, X, WsChars) IN
  IF ~is_digit(PEEK(in, X1)) THEN NoMatch(X1)
  ELSE EMIT(MARK_END(AdvanceWhile(in, X1, Digits)), "REPEAT_NUMBER")

scan_repeat_comma(in, X) == SingleChar(in, X, {Ord[","]}, "REPEAT_COMMA")

scan_repeat_dash(in, X) == SingleChar(in, X, {Ord["-"]}, "REPEAT_DASH")

scan_repeat_x(in, X) == SingleChar(in, X, {Ord["x"], Ord["X"]}, "REPEAT_X")

scan_info_continuation(in, X) == HeaderColon(in, X, Ord["+"], "INF_CTND")

scan_voice(in, X) == SingleChar(in, X, {Ord["&"]}, "VOICE")

scan_user_symbol_header(in, X) == HeaderColon(in, X, Ord["U"], "USER_SY_HDR")

UserSymbolChars ==
  (Ord["h"]..Ord["w"]) \cup (Ord["H"]..Ord["W"]) \cup {Ord["~"]}

scan_user_symbol(in, X) == SingleChar(in, X, UserSymbolChars, "USER_SY")

scan_user_symbol_invocation(in, X) ==
  SingleChar(in, X, UserSymbolChars, "USER_SY_INVOCATION")

scan_macro_header(in, X) == HeaderColon(in, X, Ord["m"], "MACRO_HDR")

MacroStartChars ==
  (Ord["a"]..Ord["x"]) \cup {Ord["z"]} \cup (Ord["A"]..Ord["X"]) \cup
  {Ord["Z"], Ord["~"]}

MacroChars == MacroStartChars \cup Digits

(* while (!EOF_REACHED) { if (PEEK is not in S) break; ADVANCE(); } *)
RECURSIVE AdvanceWhileNotEof(_, _, _)
AdvanceWhileNotEof(in, X, S) ==
  IF ~EOF_REACHED(in, X) /\ PEEK(in, X) \in S
    THEN AdvanceWhileNotEof(in, ADVANCE(in, X), S)
    ELSE X

scan_macro_var(in, X) ==
  IF PEEK(in, X) \notin MacroStartChars THEN NoMatch(X)
  ELSE EMIT(MARK_END(AdvanceWhileNotEof(in, ADVANCE(in, X), MacroChars)), "MACRO_VAR")

scan_macro_string(in, X) ==
  ContentUntil(in, X, {Ord["LF"], Ord["CR"], Ord["%"]}, "MACRO_STR")

scan_macro_invocation(in, X) ==
  IF PEEK(in, X) \notin MacroStartChars THEN NoMatch(X)
  ELSE EMIT(MARK_END(AdvanceWhileNotEof(in, ADVANCE(in, X), MacroChars)),
            "MACRO_INVOCATION")

scan_special_literal(in, X) ==
  IF PEEK(in, X) # Ord["C"] THEN NoMatch(X)
  ELSE
    LET X1 == ADVANCE(in, X)
        X2 == IF PEEK(in, X1) = Ord["|"] THEN ADVANCE(in, X1) ELSE X1
        c  == PEEK(in, X2)
    IN
    IF c \in {Ord[" "], Ord["TAB"], Ord["LF"], Ord["CR"], Ord["%"], Ord["]"]}
       \/ EOF_REACHED(in, X2)
      THEN EMIT(MARK_END(X2), "SPECIAL_LITERAL")
      ELSE NoMatch(X2)

AlphaChars == (Ord["a"]..Ord["z"]) \cup (Ord["A"]..Ord["Z"])

scan_measurement_unit(in, X) ==
  IF ~is_alpha(PEEK(in, X)) THEN NoMatch(X)
  ELSE EMIT(MARK_END(AdvanceWhile(in, X, AlphaChars)), "MEASUREMENT_UNIT")

scan_reserved_char(in, X) ==
  SingleChar(in, X, {Ord["#"], Ord[";"], Ord["?"], Ord["@"]}, "RESERVED_CHAR")

(* scan_section_break marking the token end only when it emits, at the     *)
(* position its lookahead has reached                                       *)
scan_section_break_latemark(in, X, v) ==
  IF PEEK(in, X) \notin {Ord["LF"], Ord["CR"]} THEN NoMatch(X)
  ELSE
    LET X1 == IF PEEK(in, X) = Ord["CR"] THEN ADVANCE(in, X) ELSE X IN
    IF PEEK(in, X1) # Ord["LF"] THEN NoMatch(X1)
    ELSE
      LET X2 == IncLine(ADVANCE(in, X1))
          X3 == IF "SCT_BRK" \in v /\ PEEK(in, X2) = Ord["CR"]
                  THEN ADVANCE(in, X2) ELSE X2
      IN
      IF "SCT_BRK" \in v /\ PEEK(in, X3) = Ord["LF"]
        THEN EMIT(MARK_END(IncLine(ADVANCE(in, X3))), "SCT_BRK")
      ELSE IF "EOL" \in v THEN EMIT(MARK_END(X3), "EOL")
      ELSE NoMatch(X3)

(* scan_section_break counting a line for the '\r' of the first newline as *)
(* well as for its '\n'                                                     *)
scan_section_break_crcount(in, X, v) ==
  IF PEEK(in, X) \notin {Ord["LF"], Ord["CR"]} THEN NoMatch(X)
  ELSE
    LET X1 == IF PEEK(in, X) = Ord["CR"] THEN IncLine(ADVANCE(in, X)) ELSE X IN
    IF PEEK(in, X1) # Ord["LF"] THEN NoMatch(X1)
    ELSE
      LET X2 == MARK_END(IncLine(ADVANCE(in, X1)))
          X3 == IF "SCT_BRK" \in v /\ PEEK(in, X2) = Ord["CR"]
                  THEN ADVANCE(in, X2) ELSE X2
      IN
      IF "SCT_BRK" \in v /\ PEEK(in, X3) = Ord["LF"]
        THEN EMIT(MARK_END(IncLine(ADVANCE(in, X3))), "SCT_BRK")
      ELSE IF "EOL" \in v THEN EMIT(X3, "EOL")
      ELSE NoMatch(X3)

scan_section_break(in, X, v) ==
  IF PEEK(in, X) \notin {Ord["LF"], Ord["CR"]} THEN NoMatch(X)
  ELSE
    LET X1 == IF PEEK(in, X) = Ord["CR"] THEN ADVANCE(in, X) ELSE X IN
    IF PEEK(in, X1) # Ord["LF"] THEN NoMatch(X1)
    ELSE
      LET X2 == MARK_END(IncLine(ADVANCE(in, X1)))
          X3 == IF "SCT_BRK" \in v /\ PEEK(in, X2) = Ord["CR"]
                  THEN ADVANCE(in, X2) ELSE X2
      IN
      IF "SCT_BRK" \in v /\ PEEK(in, X3) = Ord["LF"]
        THEN EMIT(MARK_END(IncLine(ADVANCE(in, X3))), "SCT_BRK")
      ELSE IF "EOL" \in v THEN EMIT(X3, "EOL")
      ELSE NoMatch(X3)

scan_free_text(in, X) == ContentUntil(in, X, LineEnd, "FREE_TXT")

(* scan_invalid running on to the next whitespace, newline or barline       *)
(* character                                                                *)
scan_invalid_run(in, X) ==
  IF EOF_REACHED(in, X) THEN NoMatch(X)
  ELSE EMIT(MARK_END(AdvanceUntil(in, X, WsChars \cup LineEnd \cup
                       {Ord["|"], Ord[":"], Ord["["], Ord["]"]})), "INVALID")

(* scan_invalid emitting its token without consuming the character *)
scan_invalid_stuck(in, X) ==
  IF EOF_REACHED(in, X) THEN NoMatch(X)
  ELSE EMIT(MARK_END(X), "INVALID")

scan_invalid(in, X) ==
  IF EOF_REACHED(in, X) THEN NoMatch(X)
  ELSE EMIT(MARK_END(ADVANCE(in, X)), "INVALID")

---------------------------------------------------------------------------
(* Main scanner function *)

TokenType ==
  {"ACCIDENTAL", "NOTE_LETTER", "OCTAVE", "REST", "TIE", "DECORATION", "SLUR",
   "BARLINE", "RHY_NUMER", "RHY_DENOM", "RHY_SEP", "RHY_BRKN", "TUPLET_LPAREN",
   "TUPLET_P", "TUPLET_COLON", "TUPLET_Q", "TUPLET_R", "REPEAT_NUMBER",
   "REPEAT_COMMA", "REPEAT_DASH", "REPEAT_X", "CHRD_LEFT_BRKT",
   "CHRD_RIGHT_BRKT", "GRC_GRP_LEFT_BRACE", "GRC_GRP_RGHT_BRACE",
   "GRC_GRP_SLSH", "INLN_FLD_LFT_BRKT", "INLN_FLD_RGT_BRKT", "EQL", "SLASH",
   "MINUS", "PLUS", "LPAREN", "RPAREN", "LBRACE", "RBRACE", "LBRACKET",
   "RBRACKET", "PIPE", "ANNOTATION", "INF_HDR", "INFO_STR", "INF_CTND",
   "VOICE", "VOICE_OVRLAY", "LINE_CONT", "SYMBOL", "USER_SY", "USER_SY_HDR",
   "USER_SY_INVOCATION", "MACRO_HDR", "MACRO_STR", "MACRO_INVOCATION",
   "MACRO_VAR", "LY_HDR", "LY_TXT", "LY_UNDR", "LY_HYPH", "LY_SECT_HDR",
   "LY_SPS", "LY_STAR", "SY_HDR", "SY_STAR", "SY_TXT",
   "STYLESHEET_DIRECTIVE", "MEASUREMENT_UNIT", "AMPERSAND", "SYSTEM_BREAK",
   "BCKTCK_SPC", "Y_SPC", "SPECIAL_LITERAL", "IDENTIFIER", "NUMBER",
   "RESERVED_CHAR", "ESCAPED_CHAR", "CHORD_SYMBOL", "DISCARD", "COMMENT",
   "WS", "EOL", "FREE_TXT", "SCT_BRK", "INVALID", "EOF"}

(* the sub-scanner that f names, called on the scan context X *)
SubScan(f, in, X, v) ==
  CASE f = "scan_whitespace" -> scan_whitespace(in, X)
    [] f = "scan_percent_token" -> scan_percent_token(in, X, v)
    [] f = "scan_note_letter" -> scan_note_letter(in, X)
    [] f = "scan_accidental" -> scan_accidental(in, X)
    [] f = "scan_octave" -> scan_octave(in, X)
    [] f = "scan_rest" -> scan_rest(in, X)
    [] f = "scan_tie" -> scan_tie(in, X)
    [] f = "scan_decoration" -> scan_decoration(in, X)
    [] f = "scan_slur" -> scan_slur(in, X)
    [] f = "scan_number" -> scan_number(in, X)
    [] f = "scan_rhythm_sep" -> scan_rhythm_sep(in, X)
    [] f = "scan_broken_rhythm" -> scan_broken_rhythm(in, X)
    [] f = "scan_barline" -> scan_barline(in, X)
    [] f = "scan_chord_bracket" -> scan_chord_bracket(in, X)
    [] f = "scan_grace_brace" -> scan_grace_brace(in, X)
    [] f = "scan_annotation" -> scan_annotation(in, X)
    [] f = "scan_symbol" -> scan_symbol(in, X)
    [] f = "scan_info_header" -> scan_info_header(in, X, v)
    [] f = "scan_ampersand" -> scan_ampersand(in, X, v)
    [] f = "scan_system_break" -> scan_system_break(in, X)
    [] f = "scan_y_spacer" -> scan_y_spacer(in, X)
    [] f = "scan_backtick_spacer" -> scan_backtick_spacer(in, X)
    [] f = "scan_line_continuation" -> scan_line_continuation(in, X)
    [] f = "scan_general_number" -> scan_general_number(in, X)
    [] f = "scan_rhythm_denom" -> scan_rhythm_denom(in, X)
    [] f = "scan_tuplet_lparen" -> scan_tuplet_lparen(in, X)
    [] f = "scan_tuplet_colon" -> scan_tuplet_colon(in, X)
    [] f = "scan_inline_field_left" -> scan_inline_field_left(in, X)
    [] f = "scan_inline_field_right" -> scan_inline_field_right(in, X)
    [] f = "scan_grace_slash" -> scan_grace_slash(in, X)
    [] f = "scan_equals" -> scan_equals(in, X)
    [] f = "scan_slash" -> scan_slash(in, X)
    [] f = "scan_minus" -> scan_minus(in, X)
    [] f = "scan_plus" -> scan_plus(in, X)
    [] f = "scan_lparen" -> scan_lparen(in, X)
    [] f = "scan_rparen" -> scan_rparen(in, X)
    [] f = "scan_lbrace" -> scan_lbrace(in, X)
    [] f = "scan_rbrace" -> scan_rbrace(in, X)
    [] f = "scan_lbracket" -> scan_lbracket(in, X)
    [] f = "scan_rbracket" -> scan_rbracket(in, X)
    [] f = "scan_pipe" -> scan_pipe(in, X)
    [] f = "scan_identifier" -> scan_identifier(in, X)
    [] f = "scan_info_string" -> scan_info_string(in, X)
    [] f = "scan_escaped_char" -> scan_escaped_char(in, X)
    [] f = "scan_chord_symbol" -> scan_chord_symbol(in, X)
    [] f = "scan_lyric_header" -> scan_lyric_header(in, X, v)
    [] f = "scan_lyric_tilde" -> scan_lyric_tilde(in, X)
    [] f = "scan_lyric_text" -> scan_lyric_text(in, X)
    [] f = "scan_lyric_underscore" -> scan_lyric_underscore(in, X)
    [] f = "scan_lyric_hyphen" -> scan_lyric_hyphen(in, X)
    [] f = "scan_lyric_star" -> scan_lyric_star(in, X)
    [] f = "scan_symbol_header" -> scan_symbol_header(in, X)
    [] f = "scan_symbol_star" -> scan_symbol_star(in, X)
    [] f = "scan_symbol_text" -> scan_symbol_text(in, X)
    [] f = "scan_tuplet_p" -> scan_tuplet_p(in, X)
    [] f = "scan_tuplet_q" -> scan_tuplet_q(in, X)
    [] f = "scan_tuplet_r" -> scan_tuplet_r(in, X)
    [] f = "scan_repeat_number" -> scan_repeat_number(in, X)
    [] f = "scan_repeat_comma" -> scan_repeat_comma(in, X)
    [] f = "scan_repeat_dash" -> scan_repeat_dash(in, X)
    [] f = "scan_repeat_x" -> scan_repeat_x(in, X)
    [] f = "scan_info_continuation" -> scan_info_continuation(in, X)
    [] f = "scan_voice" -> scan_voice(in, X)
    [] f = "scan_user_symbol_header" -> scan_user_symbol_header(in, X)
    [] f = "scan_user_symbol" -> scan_user_symbol(in, X)
    [] f = "scan_user_symbol_invocation" -> scan_user_symbol_invocation(in, X)
    [] f = "scan_macro_header" -> scan_macro_header(in, X)
    [] f = "scan_macro_var" -> scan_macro_var(in, X)
    [] f = "scan_macro_string" -> scan_macro_string(in, X)
    [] f = "scan_macro_invocation" -> scan_macro_invocation(in, X)
    [] f = "scan_special_literal" -> scan_special_literal(in, X)
    [] f = "scan_measurement_unit" -> scan_measurement_unit(in, X)
    [] f = "scan_reserved_char" -> scan_reserved_char(in, X)
    [] f = "scan_section_break" -> scan_section_break(in, X, v)
    [] f = "scan_free_text" -> scan_free_text(in, X)
    [] f = "scan_invalid" -> scan_invalid(in, X)

(* The `if (guard && scan_x(lexer)) return true;` lines of scan, in the     *)
(* order of the code. kinds: the kinds of which the guard asks one to be    *)
(* valid; peek: the characters the guard asks PEEK to be one of, {} if it   *)
(* does not read PEEK; fn: the sub-scanner called.                          *)
Attempts ==
  << [kinds |-> {"SCT_BRK", "EOL"}, peek |-> {},
      fn |-> "scan_section_break"],
     [kinds |-> {"COMMENT", "STYLESHEET_DIRECTIVE"}, peek |-> {},
      fn |-> "scan_percent_token"],
     [kinds |-> {"WS"}, peek |-> {},
      fn |-> "scan_whitespace"],
     [kinds |-> {"LINE_CONT"}, peek |-> {},
      fn |-> "scan_line_continuation"],
     [kinds |-> {"ESCAPED_CHAR"}, peek |-> {},
      fn |-> "scan_escaped_char"],
     [kinds |-> {"CHORD_SYMBOL"}, peek |-> {Ord["DQUOTE"]},
      fn |-> "scan_chord_symbol"],
     [kinds |-> {"ANNOTATION"}, peek |-> {},
      fn |-> "scan_annotation"],
     [kinds |-> {"SYMBOL"}, peek |-> {},
      fn |-> "scan_symbol"],
     [kinds |-> {"SYSTEM_BREAK"}, peek |-> {},
      fn |-> "scan_system_break"],
     [kinds |-> {"BCKTCK_SPC"}, peek |-> {},
      fn |-> "scan_backtick_spacer"],
     [kinds |-> {"BARLINE"}, peek |-> {},
      fn |-> "scan_barline"],
     [kinds |-> {"TUPLET_LPAREN"}, peek |-> {},
      fn |-> "scan_tuplet_lparen"],
     [kinds |-> {"TUPLET_COLON"}, peek |-> {},
      fn |-> "scan_tuplet_colon"],
     [kinds |-> {"ACCIDENTAL"}, peek |-> {},
      fn |-> "scan_accidental"],
     [kinds |-> {"Y_SPC"}, peek |-> {},
      fn |-> "scan_y_spacer"],
     [kinds |-> {"NOTE_LETTER"}, peek |-> {},
      fn |-> "scan_note_letter"],
     [kinds |-> {"OCTAVE"}, peek |-> {},
      fn |-> "scan_octave"],
     [kinds |-> {"REST"}, peek |-> {},
      fn |-> "scan_rest"],
     [kinds |-> {"TIE"}, peek |-> {},
      fn |-> "scan_tie"],
     [kinds |-> {"DECORATION"}, peek |-> {},
      fn |-> "scan_decoration"],
     [kinds |-> {"SLUR"}, peek |-> {},
      fn |-> "scan_slur"],
     [kinds |-> {"GRC_GRP_LEFT_BRACE"}, peek |-> {Ord["{"]},
      fn |-> "scan_grace_brace"],
     [kinds |-> {"GRC_GRP_RGHT_BRACE"}, peek |-> {Ord["}"]},
      fn |-> "scan_grace_brace"],
     [kinds |-> {"GRC_GRP_SLSH"}, peek |-> {},
      fn |-> "scan_grace_slash"],
     [kinds |-> {"INLN_FLD_LFT_BRKT"}, peek |-> {Ord["["]},
      fn |-> "scan_inline_field_left"],
     [kinds |-> {"INLN_FLD_RGT_BRKT"}, peek |-> {Ord["]"]},
      fn |-> "scan_inline_field_right"],
     [kinds |-> {"CHRD_LEFT_BRKT"}, peek |-> {Ord["["]},
      fn |-> "scan_chord_bracket"],
     [kinds |-> {"CHRD_RIGHT_BRKT"}, peek |-> {Ord["]"]},
      fn |-> "scan_chord_bracket"],
     [kinds |-> {"RHY_NUMER"}, peek |-> Digits,
      fn |-> "scan_number"],
     [kinds |-> {"RHY_DENOM"}, peek |-> {},
      fn |-> "scan_rhythm_denom"],
     [kinds |-> {"RHY_SEP"}, peek |-> {},
      fn |-> "scan_rhythm_sep"],
     [kinds |-> {"RHY_BRKN"}, peek |-> {},
      fn |-> "scan_broken_rhythm"],
     [kinds |-> {"LY_HDR", "LY_SECT_HDR"}, peek |-> {},
      fn |-> "scan_lyric_header"],
     [kinds |-> {"LY_UNDR"}, peek |-> {},
      fn |-> "scan_lyric_underscore"],
     [kinds |-> {"LY_HYPH"}, peek |-> {},
      fn |-> "scan_lyric_hyphen"],
     [kinds |-> {"LY_STAR"}, peek |-> {},
      fn |-> "scan_lyric_star"],
     [kinds |-> {"LY_SPS"}, peek |-> {},
      fn |-> "scan_lyric_tilde"],
     [kinds |-> {"LY_TXT"}, peek |-> {},
      fn |-> "scan_lyric_text"],
     [kinds |-> {"SY_HDR"}, peek |-> {},
      fn |-> "scan_symbol_header"],
     [kinds |-> {"SY_STAR"}, peek |-> {},
      fn |-> "scan_symbol_star"],
     [kinds |-> {"SY_TXT"}, peek |-> {},
      fn |-> "scan_symbol_text"],
     [kinds |-> {"TUPLET_P"}, peek |-> {},
      fn |-> "scan_tuplet_p"],
     [kinds |-> {"TUPLET_Q"}, peek |-> {},
      fn |-> "scan_tuplet_q"],
     [kinds |-> {"TUPLET_R"}, peek |-> {},
      fn |-> "scan_tuplet_r"],
     [kinds |-> {"REPEAT_NUMBER"}, peek |-> {},
      fn |-> "scan_repeat_number"],
     [kinds |-> {"REPEAT_COMMA"}, peek |-> {},
      fn |-> "scan_repeat_comma"],
     [kinds |-> {"REPEAT_DASH"}, peek |-> {},
      fn |-> "scan_repeat_dash"],
     [kinds |-> {"REPEAT_X"}, peek |-> {},
      fn |-> "scan_repeat_x"],
     [kinds |-> {"INF_CTND"}, peek |-> {},
      fn |-> "scan_info_continuation"],
     [kinds |-> {"USER_SY_HDR"}, peek |-> {},
      fn |-> "scan_user_symbol_header"],
     [kinds |-> {"USER_SY"}, peek |-> {},
      fn |-> "scan_user_symbol"],
     [kinds |-> {"USER_SY_INVOCATION"}, peek |-> {},
      fn |-> "scan_user_symbol_invocation"],
     [kinds |-> {"MACRO_HDR"}, peek |-> {},
      fn |-> "scan_macro_header"],
     [kinds |-> {"MACRO_VAR"}, peek |-> {},
      fn |-> "scan_macro_var"],
     [kinds |-> {"MACRO_STR"}, peek |-> {},
      fn |-> "scan_macro_string"],
     [kinds |-> {"MACRO_INVOCATION"}, peek |-> {},
      fn |-> "scan_macro_invocation"],
     [kinds |-> {"SPECIAL_LITERAL"}, peek |-> {},
      fn |-> "scan_special_literal"],
     [kinds |-> {"INF_HDR", "IDENTIFIER"}, peek |-> {},
      fn |-> "scan_info_header"],
     [kinds |-> {"INFO_STR"}, peek |-> {},
      fn |-> "scan_info_string"],
     [kinds |-> {"EQL"}, peek |-> {},
      fn |-> "scan_equals"],
     [kinds |-> {"SLASH"}, peek |-> {},
      fn |-> "scan_slash"],
     [kinds |-> {"MINUS"}, peek |-> {},
      fn |-> "scan_minus"],
     [kinds |-> {"PLUS"}, peek |-> {},
      fn |-> "scan_plus"],
     [kinds |-> {"LPAREN"}, peek |-> {},
      fn |-> "scan_lparen"],
     [kinds |-> {"RPAREN"}, peek |-> {},
      fn |-> "scan_rparen"],
     [kinds |-> {"LBRACE"}, peek |-> {},
      fn |-> "scan_lbrace"],
     [kinds |-> {"RBRACE"}, peek |-> {},
      fn |-> "scan_rbrace"],
     [kinds |-> {"LBRACKET"}, peek |-> {},
      fn |-> "scan_lbracket"],
     [kinds |-> {"RBRACKET"}, peek |-> {},
      fn |-> "scan_rbracket"],
     [kinds |-> {"PIPE"}, peek |-> {},
      fn |-> "scan_pipe"],
     [kinds |-> {"NUMBER"}, peek |-> {},
      fn |-> "scan_general_number"],
     [kinds |-> {"MEASUREMENT_UNIT"}, peek |-> {},
      fn |-> "scan_measurement_unit"],
     [kinds |-> {"VOICE"}, peek |-> {},
      fn |-> "scan_voice"],
     [kinds |-> {"AMPERSAND", "VOICE_OVRLAY"}, peek |-> {},
      fn |-> "scan_ampersand"],
     [kinds |-> {"RESERVED_CHAR"}, peek |-> {},
      fn |-> "scan_reserved_char"],
     [kinds |-> {"IDENTIFIER"}, peek |-> {},
      fn |-> "scan_identifier"],
     [kinds |-> {"FREE_TXT"}, peek |-> {},
      fn |-> "scan_free_text"],
     [kinds |-> {"INVALID"}, peek |-> {},
      fn |-> "scan_invalid"] >>

(* the i-th attempt: the sub-scanner is called if the guard holds, and the  *)
(* cursor is left alone if not                                              *)
(* the attempts of scan made in the opposite order *)
Attempt_reversed(i, in, X, v) ==
  LET a == Attempts[Len(Attempts) + 1 - i] IN
  IF /\ \E kind \in a.kinds : kind \in v
     /\ a.peek = {} \/ PEEK(in, X) \in a.peek
    THEN SubScan(a.fn, in, X, v)
    ELSE X

Attempt(i, in, X, v) ==
  LET a == Attempts[i] IN
  IF /\ \E kind \in a.kinds : kind \in v
     /\ a.peek = {} \/ PEEK(in, X) \in a.peek
    THEN SubScan(a.fn, in, X, v)
    ELSE X

NumAttempts == Len(Attempts)

(* if (guard && scan_x(lexer)) return true; for the attempts from the i-th  *)
(* on, each one starting where the one before it left the cursor            *)
RECURSIVE TryFrom(_, _, _, _)
TryFrom(i, in, X, v) ==
  IF i > NumAttempts THEN NoMatch(X)
  ELSE LET R == Attempt(i, in, X, v)
       IN IF R.ok THEN R ELSE TryFrom(i + 1, in, R, v)

ScanAttempts(in, X, v) == TryFrom(1, in, X, v)

(* scan without its check for the end of the input *)
tree_sitter_abc_external_scanner_scan_noeof(in, X, v) ==
  ScanAttempts(in, X, v)

tree_sitter_abc_external_scanner_scan(in, X, v) ==
  IF EOF_REACHED(in, X)
    THEN IF "EOF" \in v THEN EMIT(X, "EOF") ELSE NoMatch(X)
    ELSE ScanAttempts(in, X, v)

---------------------------------------------------------------------------
(* ScannerState and its serialization *)

tree_sitter_abc_external_scanner_create ==
  [in_tune_body |-> FALSE, in_text_block |-> FALSE, line_number |-> 1]

(* buffer[i] = v with v in 0..255: the value the char holds afterwards. A   *)
(* build whose char is signed keeps 128..255 as v - 256.                    *)
StoreChar(v, char_signed) == IF char_signed /\ v >= 128 THEN v - 256 ELSE v

(* (unsigned char)c *)
UnsignedChar(c) == c % 256

(* serialize writing line_number low byte first *)
tree_sitter_abc_external_scanner_serialize_le(st, char_signed) ==
  << StoreChar(IF st.in_tune_body THEN 1 ELSE 0, char_signed),
     StoreChar(IF st.in_text_block THEN 1 ELSE 0, char_signed),
     StoreChar(st.line_number % 256, char_signed),
     StoreChar((st.line_number \div 256) % 256, char_signed) >>

(* The four chars written to the buffer. *)
tree_sitter_abc_external_scanner_serialize(st, char_signed) ==
  << StoreChar(IF st.in_tune_body THEN 1 ELSE 0, char_signed),
     StoreChar(IF st.in_text_block THEN 1 ELSE 0, char_signed),
     StoreChar((st.line_number \div 256) % 256, char_signed),
     StoreChar(st.line_number % 256, char_signed) >>

(* deserialize restoring the two flags only *)
tree_sitter_abc_external_scanner_deserialize_flags(st, buf, length) ==
  IF length >= 4
    THEN [st EXCEPT !.in_tune_body = buf[1] # 0, !.in_text_block = buf[2] # 0]
    ELSE st

(* deserialize reading the buffer whatever length it is given *)
tree_sitter_abc_external_scanner_deserialize_unguarded(st, buf, length) ==
  [in_tune_body |-> buf[1] # 0,
   in_text_block |-> buf[2] # 0,
   line_number |-> (UnsignedChar(buf[3]) * 256 + UnsignedChar(buf[4])) % 65536]

(* deserialize without the casts to unsigned char: a negative char is      *)
(* sign-extended before it is shifted and or-ed                             *)
tree_sitter_abc_external_scanner_deserialize_signed(st, buf, length) ==
  IF length >= 4
    THEN [in_tune_body |-> buf[1] # 0,
          in_text_block |-> buf[2] # 0,
          line_number |->
            IF buf[4] < 0 THEN 65536 + buf[4]
            ELSE (buf[3] * 256 + buf[4]) % 65536]
    ELSE st

(* ((uint16_t)hi << 8) | (uint16_t)lo, with hi and lo in 0..255, is         *)
(* hi * 256 + lo; the result is stored in the 16-bit line_number.           *)
tree_sitter_abc_external_scanner_deserialize(st, buf, length) ==
  IF length >= 4
    THEN [in_tune_body |-> buf[1] # 0,
          in_text_block |-> buf[2] # 0,
          line_number |->
            (UnsignedChar(buf[3]) * 256 + UnsignedChar(buf[4])) % 65536]
    ELSE st

---------------------------------------------------------------------------
(* The cursor of a test and the record of a call *)

(* result_symbol = 0 is the ordinal of TT_ACCIDENTAL *)
create_test_lexer == [pos |-> 0, mark_pos |-> 0, result_symbol |-> "ACCIDENTAL"]

(* AppState as constructed (main.cpp: class AppState, PlaybackSession):     *)
(* sessions and trackToSession are sets of records, one per map entry.      *)
(* callback is the id of the session the installed callback captured (0:    *)
(* none); inflight is the session an invocation of the callback is working  *)
(* on behind its check of playing, latched the position it read there;      *)
(* useAfterFree records that an invocation touched a destroyed session      *)
AppState ==
  [wrapper |-> [lib |-> FALSE, initialized |-> FALSE],
   audio |-> [initialized |-> FALSE, playing |-> FALSE, callback |-> 0,
              inflight |-> 0, latched |-> 0, useAfterFree |-> FALSE],
   sessions |-> {},
   nextSessionId |-> 1,
   nextTrackId |-> 1,
   trackToSession |-> {}]

(* the helper at the head of main(): nothing read, nothing written, no     *)
(* block of audio asked for, the process alive                              *)
Started ==
  [app |-> AppState, running |-> TRUE, line |-> "", read |-> 0, written |-> 0,
   response |-> <<>>, frames |-> 0, crashed |-> FALSE]

(* no scripted run: the run of a specification that has none *)
NoRun == [script |-> <<>>, done |-> 0, trace |-> <<>>, ckpt |-> <<>>,
          branch |-> <<>>]

(* the scan context at the entry of a call *)
Entry(lx, st) ==
  [pos |-> lx.pos, mark_pos |-> lx.mark_pos, result_symbol |-> lx.result_symbol,
   line_number |-> st.line_number, marks |-> 0, emits |-> 0, advances |-> 0,
   ok |-> FALSE]

NoCall(f, lx, st) ==
  [fn |-> f, start |-> lx.pos, line |-> st.line_number, ret |-> FALSE,
   marks |-> 0, emits |-> 0, advances |-> 0, entry |-> st]

(* the function of scanner.c that a call names *)
Apply(f, in, X, v) ==
  IF f = "scan" THEN tree_sitter_abc_external_scanner_scan(in, X, v)
  ELSE SubScan(f, in, X, v)

(* the variables after the call of f has returned R *)
Returned(f, R) ==
  /\ lexer' = [pos |-> R.pos, mark_pos |-> R.mark_pos,
               result_symbol |-> R.result_symbol]
  /\ state' = [state EXCEPT !.line_number = R.line_number]
  /\ call' = [fn |-> f, start |-> lexer.pos, line |-> state.line_number,
              ret |-> R.ok, marks |-> R.marks, emits |-> R.emits,
              advances |-> R.advances, entry |-> state]

---------------------------------------------------------------------------
(* Spec: a scanning session. One cursor over one text, one ScannerState,    *)
(* and the grammar engine calling scan again and again, each time with the  *)
(* kinds it accepts.                                                         *)

Alphabet ==
  {Ord["LF"], Ord["("], Ord["["], Ord[":"], Ord["A"], Ord["0"]}

Strings(A, n) == UNION {[1..k -> A] : k \in 0..n}

FocusKinds ==
  {"EOL", "BARLINE", "TUPLET_LPAREN", "SLUR", "INF_HDR", "IDENTIFIER",
   "INVALID", "EOF"}

MaxMask == 2

Masks ==
  {m \in SUBSET FocusKinds : Cardinality(m) <= MaxMask} \cup {TokenType}

Init ==
  /\ input \in Strings(Alphabet, MaxLen)
  /\ lexer = create_test_lexer
  /\ state = tree_sitter_abc_external_scanner_create
  /\ pc = "idle"
  /\ valid_symbols = {}
  /\ call = NoCall("scan", lexer, state)
  /\ buffer = <<>>
  /\ run = NoRun
  /\ helper = Started

(* the grammar engine asks for a token, giving the kinds it accepts *)
BeginCall ==
  /\ pc = "idle"
  /\ \E m \in Masks : valid_symbols' = m
  /\ pc' = "scan"
  /\ call' = NoCall("scan", lexer, state)
  /\ UNCHANGED <<input, lexer, state, buffer, run, helper>>

Scan ==
  /\ pc = "scan"
  /\ Returned("scan", Apply("scan", input, Entry(lexer, state), valid_symbols))
  /\ pc' = "idle"
  /\ valid_symbols' = {}
  /\ UNCHANGED <<input, buffer, run, helper>>

Next == BeginCall \/ Scan

Spec == Init /\ [][Next]_vars

---------------------------------------------------------------------------
(* SpecUnit: one call of one function of scanner.c on a fresh cursor, as    *)
(* the unit tests make it: create_test_lexer(input), a ScannerState, a      *)
(* valid_symbols array, the call.                                           *)

SubScanners ==
  {"scan_whitespace", "scan_percent_token", "scan_note_letter",
   "scan_accidental", "scan_octave", "scan_rest",
   "scan_tie", "scan_decoration", "scan_slur",
   "scan_number", "scan_rhythm_sep", "scan_broken_rhythm",
   "scan_barline", "scan_chord_bracket", "scan_grace_brace",
   "scan_annotation", "scan_symbol", "scan_info_header",
   "scan_ampersand", "scan_system_break", "scan_y_spacer",
   "scan_backtick_spacer", "scan_line_continuation", "scan_general_number",
   "scan_rhythm_denom", "scan_tuplet_lparen", "scan_tuplet_colon",
   "scan_inline_field_left", "scan_inline_field_right", "scan_grace_slash",
   "scan_equals", "scan_slash", "scan_minus",
   "scan_plus", "scan_lparen", "scan_rparen",
   "scan_lbrace", "scan_rbrace", "scan_lbracket",
   "scan_rbracket", "scan_pipe", "scan_identifier",
   "scan_info_string", "scan_escaped_char", "scan_chord_symbol",
   "scan_lyric_header", "scan_lyric_tilde", "scan_lyric_text",
   "scan_lyric_underscore", "scan_lyric_hyphen", "scan_lyric_star",
   "scan_symbol_header", "scan_symbol_star", "scan_symbol_text",
   "scan_tuplet_p", "scan_tuplet_q", "scan_tuplet_r",
   "scan_repeat_number", "scan_repeat_comma", "scan_repeat_dash",
   "scan_repeat_x", "scan_info_continuation", "scan_voice",
   "scan_user_symbol_header", "scan_user_symbol", "scan_user_symbol_invocation",
   "scan_macro_header", "scan_macro_var", "scan_macro_string",
   "scan_macro_invocation", "scan_special_literal", "scan_measurement_unit",
   "scan_reserved_char", "scan_section_break", "scan_free_text",
   "scan_invalid"}

UnitFunctions == SubScanners \cup {"scan"}

(* the characters a test of f draws its input from: those the code of f    *)
(* names, the neighbours of its ranges, and a character foreign to it      *)
UnitChars(f) ==
  CASE f = "scan_whitespace" ->
         {Ord[" "], Ord["TAB"], Ord["LF"], Ord["A"]}
    [] f = "scan_percent_token" ->
         {Ord["%"], Ord["LF"], Ord["CR"], Ord["A"]}
    [] f = "scan_note_letter" ->
         {Ord["a"], Ord["g"], Ord["h"], Ord["A"], Ord["G"], Ord["H"], Ord["@"], Ord["BTICK"]}
    [] f = "scan_accidental" ->
         {Ord["^"], Ord["_"], Ord["/"], Ord["="], Ord["A"]}
    [] f = "scan_octave" ->
         {Ord["APOS"], Ord[","], Ord["A"]}
    [] f = "scan_rest" ->
         {Ord["z"], Ord["Z"], Ord["x"], Ord["X"], Ord["y"], Ord["A"]}
    [] f = "scan_tie" ->
         {Ord["-"], Ord["A"]}
    [] f = "scan_decoration" ->
         {Ord["."], Ord["~"], Ord["H"], Ord["T"], Ord["u"], Ord["v"], Ord["A"], Ord["G"]}
    [] f = "scan_slur" ->
         {Ord["("], Ord[")"], Ord["A"]}
    [] f = "scan_number" ->
         {Ord["0"], Ord["9"], Ord["/"], Ord[":"], Ord["A"]}
    [] f = "scan_rhythm_sep" ->
         {Ord["/"], Ord["A"]}
    [] f = "scan_broken_rhythm" ->
         {Ord["<"], Ord[">"], Ord["="], Ord["A"]}
    [] f = "scan_barline" ->
         {Ord["|"], Ord[":"], Ord["["], Ord["]"], Ord["0"], Ord["1"], Ord["A"]}
    [] f = "scan_chord_bracket" ->
         {Ord["["], Ord["]"], Ord["A"]}
    [] f = "scan_grace_brace" ->
         {Ord["{"], Ord["}"], Ord["A"]}
    [] f = "scan_annotation" ->
         {Ord["DQUOTE"], Ord["BSLASH"], Ord["LF"], Ord["A"]}
    [] f = "scan_symbol" ->
         {Ord["!"], Ord["+"], Ord["LF"], Ord["A"]}
    [] f = "scan_info_header" ->
         {Ord["A"], Ord["z"], Ord[":"], Ord[" "], Ord["0"]}
    [] f = "scan_ampersand" ->
         {Ord["&"], Ord["LF"], Ord["A"]}
    [] f = "scan_system_break" ->
         {Ord["$"], Ord["A"]}
    [] f = "scan_y_spacer" ->
         {Ord["y"], Ord["x"], Ord["A"]}
    [] f = "scan_backtick_spacer" ->
         {Ord["BTICK"], Ord["A"]}
    [] f = "scan_line_continuation" ->
         {Ord["BSLASH"], Ord["LF"], Ord["A"]}
    [] f = "scan_general_number" ->
         {Ord["0"], Ord["9"], Ord["/"], Ord[":"], Ord["A"]}
    [] f = "scan_rhythm_denom" ->
         {Ord["0"], Ord["9"], Ord["/"], Ord[":"], Ord["A"]}
    [] f = "scan_tuplet_lparen" ->
         {Ord["("], Ord["0"], Ord["9"], Ord["A"]}
    [] f = "scan_tuplet_colon" ->
         {Ord[":"], Ord["A"]}
    [] f = "scan_inline_field_left" ->
         {Ord["["], Ord["]"], Ord["A"]}
    [] f = "scan_inline_field_right" ->
         {Ord["["], Ord["]"], Ord["A"]}
    [] f = "scan_grace_slash" ->
         {Ord["/"], Ord["A"]}
    [] f = "scan_equals" ->
         {Ord["="], Ord["A"]}
    [] f = "scan_slash" ->
         {Ord["/"], Ord["A"]}
    [] f = "scan_minus" ->
         {Ord["-"], Ord["A"]}
    [] f = "scan_plus" ->
         {Ord["+"], Ord["A"]}
    [] f = "scan_lparen" ->
         {Ord["("], Ord[")"], Ord["A"]}
    [] f = "scan_rparen" ->
         {Ord["("], Ord[")"], Ord["A"]}
    [] f = "scan_lbrace" ->
         {Ord["{"], Ord["}"], Ord["A"]}
    [] f = "scan_rbrace" ->
         {Ord["{"], Ord["}"], Ord["A"]}
    [] f = "scan_lbracket" ->
         {Ord["["], Ord["]"], Ord["A"]}
    [] f = "scan_rbracket" ->
         {Ord["["], Ord["]"], Ord["A"]}
    [] f = "scan_pipe" ->
         {Ord["|"], Ord["A"]}
    [] f = "scan_identifier" ->
         {Ord["a"], Ord["Z"], Ord["_"], Ord["-"], Ord["0"], Ord[" "]}
    [] f = "scan_info_string" ->
         {Ord["A"], Ord[" "], Ord["LF"], Ord["CR"]}
    [] f = "scan_escaped_char" ->
         {Ord["BSLASH"], Ord["LF"], Ord["CR"], Ord["A"]}
    [] f = "scan_chord_symbol" ->
         {Ord["DQUOTE"], Ord["BSLASH"], Ord["LF"], Ord["A"]}
    [] f = "scan_lyric_header" ->
         {Ord["w"], Ord["W"], Ord[" "], Ord["TAB"], Ord[":"], Ord["A"]}
    [] f = "scan_lyric_tilde" ->
         {Ord["~"], Ord["A"]}
    [] f = "scan_lyric_text" ->
         {Ord["A"], Ord[" "], Ord["-"], Ord["_"], Ord["*"], Ord["~"], Ord["|"], Ord["BSLASH"], Ord["LF"], Ord["%"]}
    [] f = "scan_lyric_underscore" ->
         {Ord["_"], Ord["A"]}
    [] f = "scan_lyric_hyphen" ->
         {Ord["-"], Ord["A"]}
    [] f = "scan_lyric_star" ->
         {Ord["*"], Ord["A"]}
    [] f = "scan_symbol_header" ->
         {Ord["s"], Ord[" "], Ord["TAB"], Ord[":"], Ord["A"]}
    [] f = "scan_symbol_star" ->
         {Ord["*"], Ord["A"]}
    [] f = "scan_symbol_text" ->
         {Ord["A"], Ord[" "], Ord["TAB"], Ord["%"], Ord["*"], Ord["LF"], Ord["CR"], Ord["|"]}
    [] f = "scan_tuplet_p" ->
         {Ord["0"], Ord["9"], Ord["/"], Ord[":"], Ord["A"]}
    [] f = "scan_tuplet_q" ->
         {Ord["0"], Ord["9"], Ord["/"], Ord[":"], Ord["A"]}
    [] f = "scan_tuplet_r" ->
         {Ord["0"], Ord["9"], Ord["/"], Ord[":"], Ord["A"]}
    [] f = "scan_repeat_number" ->
         {Ord["0"], Ord["9"], Ord[" "], Ord["TAB"], Ord["A"]}
    [] f = "scan_repeat_comma" ->
         {Ord[","], Ord["A"]}
    [] f = "scan_repeat_dash" ->
         {Ord["-"], Ord["A"]}
    [] f = "scan_repeat_x" ->
         {Ord["x"], Ord["X"], Ord["A"]}
    [] f = "scan_info_continuation" ->
         {Ord["+"], Ord[" "], Ord["TAB"], Ord[":"], Ord["A"]}
    [] f = "scan_voice" ->
         {Ord["&"], Ord["A"]}
    [] f = "scan_user_symbol_header" ->
         {Ord["U"], Ord[" "], Ord["TAB"], Ord[":"], Ord["A"]}
    [] f = "scan_user_symbol" ->
         {Ord["h"], Ord["w"], Ord["H"], Ord["W"], Ord["~"], Ord["g"], Ord["x"], Ord["G"], Ord["X"]}
    [] f = "scan_user_symbol_invocation" ->
         {Ord["h"], Ord["w"], Ord["H"], Ord["W"], Ord["~"], Ord["g"], Ord["x"], Ord["G"], Ord["X"]}
    [] f = "scan_macro_header" ->
         {Ord["m"], Ord[" "], Ord["TAB"], Ord[":"], Ord["A"]}
    [] f = "scan_macro_var" ->
         {Ord["a"], Ord["x"], Ord["y"], Ord["z"], Ord["X"], Ord["Y"], Ord["0"], Ord["~"], Ord[" "]}
    [] f = "scan_macro_string" ->
         {Ord["A"], Ord[" "], Ord["LF"], Ord["CR"], Ord["%"]}
    [] f = "scan_macro_invocation" ->
         {Ord["a"], Ord["x"], Ord["y"], Ord["z"], Ord["X"], Ord["Y"], Ord["0"], Ord["~"], Ord[" "]}
    [] f = "scan_special_literal" ->
         {Ord["C"], Ord["|"], Ord[" "], Ord["LF"], Ord["%"], Ord["]"], Ord["A"]}
    [] f = "scan_measurement_unit" ->
         {Ord["a"], Ord["z"], Ord["A"], Ord["Z"], Ord["0"], Ord["@"], Ord["["], Ord["{"]}
    [] f = "scan_reserved_char" ->
         {Ord["#"], Ord[";"], Ord["?"], Ord["@"], Ord["A"]}
    [] f = "scan_section_break" ->
         {Ord["LF"], Ord["CR"], Ord["A"]}
    [] f = "scan_free_text" ->
         {Ord["A"], Ord[" "], Ord["LF"], Ord["CR"]}
    [] f = "scan_invalid" ->
         {Ord["A"], Ord[" "], Ord["LF"], Ord["|"]}

UnitInputs(f) ==
  IF f = "scan" THEN Strings(Alphabet \cup {Ord["CR"], Ord["|"]}, MaxLen)
  ELSE IF f \in {"scan_section_break", "scan_annotation",
                 "scan_user_symbol_header"}
    THEN Strings(UnitChars(f), MaxLen + 2)
  ELSE Strings(UnitChars(f), MaxLen + 1)

(* the kinds whose valid_symbols entry the code of f reads *)
KindsRead(f) ==
  CASE f = "scan_section_break" -> {"SCT_BRK", "EOL"}
    [] f = "scan_percent_token" -> {"STYLESHEET_DIRECTIVE", "COMMENT"}
    [] f = "scan_info_header" -> {"IDENTIFIER"}
    [] f = "scan_ampersand" -> {"VOICE_OVRLAY", "AMPERSAND"}
    [] f = "scan_lyric_header" -> {"LY_SECT_HDR", "LY_HDR"}
    [] OTHER -> {}

UnitMasks(f) == IF f = "scan" THEN Masks ELSE SUBSET KindsRead(f)

(* pairs of kinds whose matchers can start with the same character, the     *)
(* masks that hold such a pair, and texts of the characters they compete for *)
PriorityPairs ==
  {{"BARLINE", "CHRD_LEFT_BRKT"}, {"BARLINE", "INLN_FLD_LFT_BRKT"},
   {"TUPLET_LPAREN", "SLUR"}, {"LINE_CONT", "ESCAPED_CHAR"},
   {"Y_SPC", "NOTE_LETTER"}}

PriorityMasks ==
  PriorityPairs \cup {TokenType}
  \cup {p \cup {k} : p \in PriorityPairs, k \in {"INVALID", "IDENTIFIER"}}

PriorityInputs ==
  Strings({Ord["["], Ord["|"], Ord["0"], Ord["("], Ord["BSLASH"], Ord["y"]},
          MaxLen)

(* masks under which a quoted string is a chord symbol or an annotation *)
QuotedMasks ==
  {{"CHORD_SYMBOL"}, {"ANNOTATION"}, {"CHORD_SYMBOL", "ANNOTATION"}}

(* the kinds of a digit run, in the order in which scan tries them *)
DigitKinds ==
  <<"RHY_NUMER", "RHY_DENOM", "TUPLET_P", "TUPLET_Q", "TUPLET_R",
    "REPEAT_NUMBER", "NUMBER">>

Range(q) == {q[i] : i \in DOMAIN q}

DigitMasks ==
  {m \in SUBSET Range(DigitKinds) : m # {} /\ Cardinality(m) <= MaxMask}
  \cup {Range(DigitKinds)}

(* the texts and masks of the direct calls of f *)
UnitCases(f) ==
  (UnitInputs(f) \X UnitMasks(f))
  \cup (IF f = "scan" THEN PriorityInputs \X PriorityMasks ELSE {})
  \cup (IF f = "scan"
          THEN Strings({Ord["LF"], Ord["CR"], Ord["A"]}, MaxLen)
                 \X {{"SCT_BRK"}, {"INFO_STR"}}
          ELSE {})
  \cup (IF f = "scan"
          THEN Strings(UnitChars("scan_annotation"), MaxLen + 2) \X QuotedMasks
          ELSE {})
  \cup (IF f = "scan"
          THEN Strings({Ord["0"], Ord["9"], Ord["A"], Ord[" "]}, MaxLen)
                 \X DigitMasks
          ELSE {})

(* line numbers of the ScannerState a test starts from: the one of create,  *)
(* and the last two of the 16-bit counter                                   *)
StartLines == {1, 65534, 65535}

(* the ScannerState of a direct call: the created one and, for the two      *)
(* functions that are given the state, one restored with both flags set and *)
(* the created one at the last line numbers of the counter                  *)
UnitStates(f) ==
  {tree_sitter_abc_external_scanner_create}
  \cup (IF f \in {"scan", "scan_section_break"}
          THEN {[in_tune_body |-> TRUE, in_text_block |-> TRUE,
                 line_number |-> 1],
                [tree_sitter_abc_external_scanner_create
                   EXCEPT !.line_number = 65535]}
          ELSE {})
  \cup (IF f = "scan_section_break"
          THEN {[tree_sitter_abc_external_scanner_create
                   EXCEPT !.line_number = n] : n \in StartLines}
          ELSE {})

InitUnit ==
  /\ lexer = create_test_lexer
  /\ \E f \in UnitFunctions :
       /\ state \in UnitStates(f)
       /\ call = NoCall(f, lexer, state)
       /\ \E c \in UnitCases(f) :
            /\ input = c[1]
            /\ valid_symbols = c[2]
  /\ pc = "test"
  /\ buffer = <<>>
  /\ run = NoRun
  /\ helper = Started

RunTest ==
  /\ pc = "test"
  /\ Returned(call.fn, Apply(call.fn, input, Entry(lexer, state), valid_symbols))
  /\ pc' = "done"
  /\ UNCHANGED <<input, valid_symbols, buffer, run, helper>>

NextUnit == RunTest

SpecUnit == InitUnit /\ [][NextUnit]_vars

----------------------------------------------------------------------------
(* SpecSer: the grammar engine snapshots a ScannerState with serialize and  *)
(* restores the snapshot with deserialize into a ScannerState of its own.   *)

(* line numbers around the byte boundaries of the 16-bit counter *)
SerLines == {0, 1, 127, 128, 255, 256, 257, 32767, 32768, 65280, 65535}

ScannerStates ==
  [in_tune_body : BOOLEAN, in_text_block : BOOLEAN, line_number : SerLines]

(* the states deserialize is given to overwrite *)
TargetStates ==
  {tree_sitter_abc_external_scanner_create,
   [in_tune_body |-> TRUE, in_text_block |-> TRUE, line_number |-> 65535]}

InitSer ==
  /\ state \in ScannerStates
  /\ buffer = <<>>
  /\ pc = "created"
  /\ call = [fn |-> "create", arg |-> state, length |-> 0]
  /\ input = <<>>
  /\ lexer = create_test_lexer
  /\ valid_symbols = {}
  /\ run = NoRun
  /\ helper = Started

Serialize ==
  /\ pc = "created"
  /\ \E char_signed \in BOOLEAN :
       buffer' = tree_sitter_abc_external_scanner_serialize(state, char_signed)
  /\ call' = [fn |-> "serialize", arg |-> state, length |-> Len(buffer')]
  /\ pc' = "serialized"
  /\ UNCHANGED <<state, input, lexer, valid_symbols, run, helper>>

Deserialize ==
  /\ pc = "serialized"
  /\ \E target \in TargetStates, length \in 0..call.length :
       /\ state' =
            tree_sitter_abc_external_scanner_deserialize(target, buffer, length)
       /\ call' = [fn |-> "deserialize", arg |-> call.arg, length |-> length,
                   target |-> target]
  /\ pc' = "restored"
  /\ UNCHANGED <<buffer, input, lexer, valid_symbols, run, helper>>

NextSer == Serialize \/ Deserialize

SpecSer == InitSer /\ [][NextSer]_vars

---------------------------------------------------------------------------
(* SpecRun: a scripted run. The grammar engine calls scan with the masks of *)
(* a script, one after the other, over one text. At any point it may take a *)
(* checkpoint (serialize), and later restore it (deserialize) into another  *)
(* ScannerState with a new cursor over the text that remained at the        *)
(* checkpoint; the restored session then runs the rest of the script, its   *)
(* calls interleaved in any order with those of the first session.          *)

Suffix(in, p) == SubSeq(in, p + 1, Len(in))

(* what the engine sees of a call that returned R, with positions counted   *)
(* from the start of the whole text: the kind if a token was returned, the  *)
(* marked end if the call marked one, the cursor, and the line counter      *)
Outcome(base, R) ==
  [ret |-> R.ok,
   kind |-> IF R.ok THEN R.result_symbol ELSE "none",
   end |-> IF R.marks > 0 THEN base + R.mark_pos ELSE -1,
   pos |-> base + R.pos,
   line |-> R.line_number]

(* a session: a ScannerState, a cursor over a text that starts at position  *)
(* base of the whole text, and how far through the script it is            *)
Session(in, lx, st, c, base, done, trace) ==
  [input |-> in, lexer |-> lx, state |-> st, call |-> c, base |-> base,
   done |-> done, trace |-> trace]

(* the session after a call of it has returned R *)
Stepped(sess, R) ==
     [sess EXCEPT
        !.lexer = [pos |-> R.pos, mark_pos |-> R.mark_pos,
                   result_symbol |-> R.result_symbol],
        !.state = [@ EXCEPT !.line_number = R.line_number],
        !.call = [fn |-> "scan", start |-> sess.lexer.pos,
                  line |-> sess.state.line_number, ret |-> R.ok,
                  marks |-> R.marks, emits |-> R.emits,
                  advances |-> R.advances, entry |-> sess.state],
        !.done = @ + 1,
        !.trace = Append(@, Outcome(sess.base, R))]

(* one scan call of a session with the next mask of the script *)
Step(sess, script) ==
  Stepped(sess,
          tree_sitter_abc_external_scanner_scan(
            sess.input, Entry(sess.lexer, sess.state), script[sess.done + 1]))

(* a scan call whose line counter is one object shared by every session *)
ScanCall_static(i, ss, script) ==
  [j \in DOMAIN ss |->
     IF j = i THEN Step(ss[j], script)
     ELSE [ss[j] EXCEPT
             !.state.line_number = Step(ss[i], script).state.line_number]]

(* scan(payload, lexer, valid_symbols) called for session i: the payload    *)
(* and the lexer are the only objects the function is given                 *)
ScanCall(i, ss, script) ==
  [j \in DOMAIN ss |-> IF j = i THEN Step(ss[j], script) ELSE ss[j]]

Main == Session(input, lexer, state, call, 0, run.done, run.trace)

Sessions == <<Main>> \o run.branch

RunAlphabet == {Ord["LF"], Ord["["], Ord["A"]}

RunMasks == {{"EOL", "EOF"}, {"BARLINE", "NOTE_LETTER", "INVALID"}}

Tune ==
  << Ord["X"], Ord[":"], Ord["1"], Ord["LF"],
     Ord["K"], Ord[":"], Ord["C"], Ord["LF"],
     Ord["A"], Ord["B"], Ord["C"], Ord["|"], Ord["LF"] >>

TuneScript ==
  << {"INF_HDR"}, {"INFO_STR"}, {"EOL"}, {"INF_HDR"}, {"INFO_STR"}, {"EOL"},
     {"NOTE_LETTER"}, {"NOTE_LETTER"}, {"NOTE_LETTER"}, {"BARLINE"}, {"EOL"} >>

(* the texts and scripts of the runs: every short text with every script of *)
(* as many calls as the longest text has characters, and the tune           *)
RunPrograms ==
  {[input |-> in, script |-> sc] :
     in \in Strings(RunAlphabet, MaxLen), sc \in [1..MaxLen -> RunMasks]}
  \cup {[input |-> Tune, script |-> TuneScript]}

InitRun ==
  /\ \E prog \in RunPrograms :
       /\ input = prog.input
       /\ run = [NoRun EXCEPT !.script = prog.script]
  /\ lexer = create_test_lexer
  /\ state = tree_sitter_abc_external_scanner_create
  /\ pc = "run"
  /\ valid_symbols = {}
  /\ call = NoCall("scan", lexer, state)
  /\ buffer = <<>>
  /\ helper = Started

(* the sessions after a call, written back to the variables *)
Continue(ss) ==
  /\ lexer' = ss[1].lexer
  /\ state' = ss[1].state
  /\ call' = ss[1].call
  /\ run' = [run EXCEPT !.done = ss[1].done, !.trace = ss[1].trace,
                        !.branch = Tail(ss)]
  /\ UNCHANGED <<input, pc, valid_symbols, buffer, helper>>

MainScan ==
  /\ pc = "run"
  /\ run.done < Len(run.script)
  /\ Continue(ScanCall(1, Sessions, run.script))

BranchScan ==
  /\ pc = "run"
  /\ run.branch # <<>>
  /\ run.branch[1].done < Len(run.script)
  /\ Continue(ScanCall(2, Sessions, run.script))

(* the engine keeps a snapshot of the ScannerState and notes where the      *)
(* cursor is and how many calls were made                                   *)
Checkpoint ==
  /\ pc = "run"
  /\ run.ckpt = <<>>
  /\ \E char_signed \in BOOLEAN :
       buffer' = tree_sitter_abc_external_scanner_serialize(state, char_signed)
  /\ run' = [run EXCEPT !.ckpt = <<[pos |-> lexer.pos, done |-> run.done,
                                    target |-> <<>>]>>]
  /\ UNCHANGED <<input, lexer, state, pc, valid_symbols, call, helper>>

(* the snapshot is restored into a ScannerState, new or used, with a new    *)
(* cursor over the text from the position of the checkpoint on              *)
Restore ==
  /\ pc = "run"
  /\ run.ckpt # <<>>
  /\ run.branch = <<>>
  /\ \E target \in TargetStates :
       LET st == tree_sitter_abc_external_scanner_deserialize(
                   target, buffer, Len(buffer))
           at == run.ckpt[1]
       IN run' = [run EXCEPT
                    !.ckpt = <<[at EXCEPT !.target = <<target>>]>>,
                    !.branch =
                      << Session(Suffix(input, at.pos), create_test_lexer, st,
                                 NoCall("scan", create_test_lexer, st),
                                 at.pos, at.done, <<>>) >>]
  /\ UNCHANGED <<input, lexer, state, pc, valid_symbols, call, buffer, helper>>

NextRun == MainScan \/ BranchScan \/ Checkpoint \/ Restore

SpecRun == InitRun /\ [][NextRun]_vars

---------------------------------------------------------------------------
(* SpecLive: a session whose every mask holds TT_EOF and TT_INVALID, and    *)
(* whose grammar engine keeps calling scan until it is given TT_EOF;        *)
(* run.done counts the calls.                                               *)

LiveMasks == {{k, "EOF", "INVALID"} : k \in FocusKinds} \cup {TokenType}

EofEmitted == call.ret /\ lexer.result_symbol = "EOF"

InitLive ==
  /\ input \in Strings(Alphabet \cup {Ord[" "]}, MaxLen)
  /\ lexer = create_test_lexer
  /\ state = tree_sitter_abc_external_scanner_create
  /\ pc = "live"
  /\ valid_symbols = {}
  /\ call = NoCall("scan", lexer, state)
  /\ buffer = <<>>
  /\ run = NoRun
  /\ helper = Started

LiveScan ==
  /\ pc = "live"
  /\ ~EofEmitted
  /\ run.done <= Len(input)
  /\ \E m \in LiveMasks :
       /\ valid_symbols' = m
       /\ Returned("scan", Apply("scan", input, Entry(lexer, state), m))
  /\ run' = [run EXCEPT !.done = @ + 1]
  /\ UNCHANGED <<input, pc, buffer, helper>>

NextLive == LiveScan

SpecLive == InitLive /\ [][NextLive]_vars /\ WF_vars(LiveScan)

----------------------------------------------------------------------------
(* Properties of a scanning session (Spec)                                  *)

(* the character k places after the cursor, 0 past the end of the text *)
Lookahead(k) ==
  IF lexer.pos + k < Len(input) THEN input[lexer.pos + k + 1] ELSE 0

(* scan is about to run scan_barline on a '[' or ':' that begins no barline *)
BarlineProbeFails ==
  /\ pc = "scan"
  /\ "BARLINE" \in valid_symbols
  /\ \/ Lookahead(0) = Ord["["] /\ Lookahead(1) \notin {Ord["|"]} \cup Digits
     \/ Lookahead(0) = Ord[":"] /\ Lookahead(1) \notin {Ord["|"], Ord[":"]}

(* scan is about to run scan_tuplet_lparen on a '(' that begins no tuplet *)
TupletProbeFails ==
  /\ pc = "scan"
  /\ "TUPLET_LPAREN" \in valid_symbols
  /\ Lookahead(0) = Ord["("]
  /\ Lookahead(1) \notin Digits

(* C1: across the calls of a session the cursor position never decreases,   *)
(* and a call in which scan_barline or scan_tuplet_lparen advanced over a   *)
(* character and then reported no match ends with the cursor beyond that    *)
(* character: it is not rewound.                                            *)
C1_NoBacktracking ==
  [][/\ lexer'.pos >= lexer.pos
     /\ (BarlineProbeFails \/ TupletProbeFails) => lexer'.pos > lexer.pos]_vars

(* a later call of a session that returned no token and left the cursor     *)
(* advanced                                                                 *)
C1_Witness ==
  /\ pc = "idle"
  /\ call.start > 0
  /\ ~call.ret
  /\ lexer.pos > call.start

(* C2: whenever scan returns true, the kind stored in result_symbol is one  *)
(* that valid_symbols held for that call.                                   *)
C2_ResultIsValid ==
  [][(pc = "scan" /\ call'.ret) => lexer'.result_symbol \in valid_symbols]_vars

(* C3: a call in which a sub-scanner consumed a character and then          *)
(* reported no match ('[' not followed by '|' or a digit, ':' not followed  *)
(* by '|' or ':', '(' not followed by a digit) returns no token.            *)
C3_NoTokenAfterPartialConsume ==
  [][(BarlineProbeFails \/ TupletProbeFails) => ~call'.ret]_vars

(* C5: if INVALID is valid and the cursor is not at the end of the input    *)
(* when scan is called, scan returns a token.                               *)
C5_InvalidAlwaysRecovers ==
  [][(pc = "scan" /\ "INVALID" \in valid_symbols /\ lexer.pos < Len(input))
       => call'.ret]_vars

(* C7: when scan is called with the cursor at the end of the input, it      *)
(* returns EOF if EOF is valid and no token otherwise, whatever else is     *)
(* valid; it consumes nothing, marks no token end and leaves the            *)
(* ScannerState alone, as no sub-scanner runs.                              *)
C7_EofAtEntry ==
  [][(pc = "scan" /\ lexer.pos >= Len(input)) =>
       /\ call'.ret = ("EOF" \in valid_symbols)
       /\ call'.ret => lexer'.result_symbol = "EOF"
       /\ ~call'.ret => lexer'.result_symbol = lexer.result_symbol
       /\ lexer'.pos = lexer.pos
       /\ lexer'.mark_pos = lexer.mark_pos
       /\ call'.marks = 0
       /\ state' = state]_vars

(* a call at the end of a text that was consumed by earlier calls returned  *)
(* EOF                                                                      *)
C7_Witness ==
  /\ pc = "idle"
  /\ Len(input) > 0
  /\ call.start = Len(input)
  /\ call.ret
  /\ lexer.result_symbol = "EOF"

----------------------------------------------------------------------------
(* Properties of one call (SpecUnit)                                        *)

(* the matchers that call mark_end twice on a path that emits *)
MarksTwice ==
  \/ call.fn = "scan_info_header"
  \/ call.fn = "scan_section_break" /\ lexer.result_symbol = "SCT_BRK"

(* C4: a call of scan produces at most one token, and so does a call of     *)
(* any sub-scanner; a sub-scanner that produces a token has called          *)
(* mark_end once, except scan_info_header and, when it emits SCT_BRK,       *)
(* scan_section_break, which have called it twice.                          *)
C4_OneTokenMarksPerMatcher ==
  pc = "done" =>
    /\ call.emits <= 1
    /\ call.ret <=> call.emits = 1
    /\ (call.ret /\ call.fn \in SubScanners) =>
         call.marks = IF MarksTwice THEN 2 ELSE 1

(* scan_section_break emitted SCT_BRK after two calls of mark_end *)
C4_Witness ==
  /\ pc = "done"
  /\ call.fn = "scan_section_break"
  /\ call.ret
  /\ lexer.result_symbol = "SCT_BRK"
  /\ call.marks = 2

(* C4 as stated: at most one token, and at most one call of mark_end in a   *)
(* call that produces a token.                                              *)
C4_AtMostOneMark ==
  pc = "done" => (call.emits <= 1 /\ (call.ret => call.marks <= 1))

(* whitespace, newline and barline characters *)
SyncChars ==
  WsChars \cup LineEnd \cup {Ord["|"], Ord[":"], Ord["["], Ord["]"]}

(* a call in which only the recovery matcher can run, on a text not at end *)
RecoveryOnly ==
  /\ pc = "done"
  /\ Len(input) > 0
  /\ \/ call.fn = "scan_invalid"
     \/ call.fn = "scan" /\ valid_symbols = {"INVALID"}

(* C6: when INVALID is the only kind valid, scan, through scan_invalid,     *)
(* consumes exactly one character, whatever it is, and emits INVALID over   *)
(* that one character.                                                      *)
C6_InvalidConsumesOne ==
  RecoveryOnly =>
    /\ call.ret
    /\ lexer.result_symbol = "INVALID"
    /\ lexer.pos = call.start + 1
    /\ lexer.mark_pos = lexer.pos

(* scan emitted INVALID over the first of two characters that are no        *)
(* synchronization characters                                               *)
C6_Witness ==
  /\ RecoveryOnly
  /\ call.fn = "scan"
  /\ Len(input) >= 2
  /\ input[1] \notin SyncChars
  /\ input[2] \notin SyncChars
  /\ call.ret
  /\ lexer.pos = 1

(* C6 as stated: the INVALID token runs up to, and not including, the next  *)
(* synchronization character.                                               *)
C6_InvalidConsumesRun ==
  RecoveryOnly =>
    /\ call.ret
    /\ lexer.result_symbol = "INVALID"
    /\ lexer.pos =
         AdvanceUntil(input, Entry(create_test_lexer, state), SyncChars).pos
    /\ lexer.mark_pos = lexer.pos

(* the length of the newline the text has at offset p: 1 for \n, 2 for     *)
(* \r\n, 0 if there is none                                                 *)
NewlineAt(p) ==
  IF p < Len(input) /\ input[p + 1] = Ord["LF"] THEN 1
  ELSE IF p + 1 < Len(input) /\ input[p + 1] = Ord["CR"]
            /\ input[p + 2] = Ord["LF"] THEN 2
  ELSE 0

(* scan_section_break has run on a text that starts with a newline *)
SectionBreakCall ==
  /\ pc = "done"
  /\ call.fn = "scan_section_break"
  /\ NewlineAt(0) > 0

(* a second newline follows the first and SCT_BRK is valid *)
IsSectionBreak == "SCT_BRK" \in valid_symbols /\ NewlineAt(NewlineAt(0)) > 0

(* where the cursor stops when no section break is found: after the first   *)
(* newline, or after a '\r' behind it that the lookahead for SCT_BRK took   *)
AfterLookahead ==
  IF "SCT_BRK" \in valid_symbols /\ NewlineAt(0) < Len(input)
       /\ input[NewlineAt(0) + 1] = Ord["CR"]
    THEN NewlineAt(0) + 1
    ELSE NewlineAt(0)

(* C8: on a text that starts with a newline scan_section_break consumes it  *)
(* and marks the token end there; with SCT_BRK valid and a second newline   *)
(* next it extends the token over it and emits SCT_BRK; otherwise the token *)
(* end stays after the first newline, also when the lookahead took a '\r',  *)
(* and it emits EOL if EOL is valid and returns no token if it is not.      *)
C8_SectionBreakOrEol ==
  SectionBreakCall =>
    IF IsSectionBreak
      THEN /\ call.ret
           /\ lexer.result_symbol = "SCT_BRK"
           /\ lexer.pos = NewlineAt(0) + NewlineAt(NewlineAt(0))
           /\ lexer.mark_pos = lexer.pos
      ELSE /\ call.ret = ("EOL" \in valid_symbols)
           /\ call.ret => lexer.result_symbol = "EOL"
           /\ lexer.mark_pos = NewlineAt(0)
           /\ lexer.pos = AfterLookahead

(* EOL was emitted with the token end after the first newline although the  *)
(* lookahead had advanced past a '\r'                                       *)
C8_Witness ==
  /\ SectionBreakCall
  /\ call.ret
  /\ lexer.result_symbol = "EOL"
  /\ lexer.mark_pos = NewlineAt(0)
  /\ lexer.pos = NewlineAt(0) + 1

(* C8 as stated: with no section break found, EOL is emitted with the token *)
(* end after the first newline.                                             *)
C8_EolOtherwise ==
  SectionBreakCall =>
    IF IsSectionBreak
      THEN /\ call.ret
           /\ lexer.result_symbol = "SCT_BRK"
           /\ lexer.pos = NewlineAt(0) + NewlineAt(NewlineAt(0))
           /\ lexer.mark_pos = lexer.pos
      ELSE /\ call.ret
           /\ lexer.result_symbol = "EOL"
           /\ lexer.mark_pos = NewlineAt(0)

(* a call of scan or of scan_section_break has emitted EOL or SCT_BRK *)
NewlineToken ==
  /\ pc = "done"
  /\ call.fn \in {"scan", "scan_section_break"}
  /\ call.ret
  /\ lexer.result_symbol \in {"EOL", "SCT_BRK"}

(* the newlines of the token: one in an EOL, two in a SCT_BRK *)
NewlinesIn(kind) == IF kind = "SCT_BRK" THEN 2 ELSE 1

(* C9: a call that emits EOL raises line_number by 1 and a call that emits  *)
(* SCT_BRK by 2, for \n and \r\n alike, in the arithmetic of the 16-bit     *)
(* counter: from 65535 it goes on to 0.                                     *)
C9_LineNumberCounts ==
  NewlineToken =>
    state.line_number =
      (call.line + NewlinesIn(lexer.result_symbol)) % 65536

(* SCT_BRK was emitted over two \r\n pairs and line_number went up by 2 *)
C9_Witness ==
  /\ NewlineToken
  /\ lexer.result_symbol = "SCT_BRK"
  /\ lexer.mark_pos = 4
  /\ state.line_number = call.line + 2

(* C9 as stated: line_number is exactly 1, or 2, more than before. *)
C9_LineNumberExact ==
  NewlineToken =>
    state.line_number = call.line + NewlinesIn(lexer.result_symbol)

----------------------------------------------------------------------------
(* Properties of a snapshot (SpecSer)                                       *)

(* C10: deserializing the four bytes that serialize wrote for a             *)
(* ScannerState s, into any ScannerState, yields a state equal to s in      *)
(* in_tune_body, in_text_block and line_number.                             *)
C10_RoundTrip ==
  (pc = "restored" /\ call.length >= 4) =>
    /\ state.in_tune_body = call.arg.in_tune_body
    /\ state.in_text_block = call.arg.in_text_block
    /\ state.line_number = call.arg.line_number

(* a state with both bytes of line_number above 127 and flags unlike the    *)
(* overwritten state's came back                                            *)
C10_Witness ==
  /\ pc = "restored"
  /\ call.length >= 4
  /\ call.arg.line_number = 65535
  /\ call.arg.in_tune_body
  /\ ~call.arg.in_text_block
  /\ state = call.arg

(* the byte a char of the buffer holds, as a number in 0..255 *)
Byte(i) == UnsignedChar(buffer[i])

(* C11: serialize writes exactly 4 bytes and returns 4: byte 0 is           *)
(* in_tune_body as 0 or 1, byte 1 is in_text_block as 0 or 1, byte 2 the    *)
(* high and byte 3 the low 8 bits of line_number; the state is as before.   *)
C11_SerializeLayout ==
  pc = "serialized" =>
    /\ Len(buffer) = 4
    /\ call.length = 4
    /\ Byte(1) = IF call.arg.in_tune_body THEN 1 ELSE 0
    /\ Byte(2) = IF call.arg.in_text_block THEN 1 ELSE 0
    /\ Byte(3) = call.arg.line_number \div 256
    /\ Byte(4) = call.arg.line_number % 256
    /\ state = call.arg

(* a line number whose two bytes differ and are both above 127 was written *)
(* by a build whose char is signed                                          *)
C11_Witness ==
  /\ pc = "serialized"
  /\ state.line_number = 65280
  /\ state.in_text_block
  /\ buffer[3] < 0
  /\ Byte(3) = 255
  /\ Byte(4) = 0

(* C12: deserialize given a length below 4, 0 included, leaves the three    *)
(* fields of the ScannerState as they were.                                 *)
C12_ShortBufferIgnored ==
  (pc = "restored" /\ call.length < 4) =>
    /\ state.in_tune_body = call.target.in_tune_body
    /\ state.in_text_block = call.target.in_text_block
    /\ state.line_number = call.target.line_number

(* three bytes of a snapshot that differs from the target in every field    *)
(* were offered and the target is as it was                                 *)
C12_Witness ==
  /\ pc = "restored"
  /\ call.length = 3
  /\ call.arg.in_tune_body # call.target.in_tune_body
  /\ call.arg.in_text_block # call.target.in_text_block
  /\ call.arg.line_number # call.target.line_number
  /\ state = call.target

(* the session restored from the checkpoint, and the checkpoint *)
Branch == run.branch[1]
Ckpt == run.ckpt[1]

(* C13: a session restored from a snapshot taken after k calls, into a new  *)
(* or a used ScannerState, and run from the cursor position of the          *)
(* checkpoint with the same masks, gives call by call the kinds, token      *)
(* ends, cursor positions and line counts of the run that was not           *)
(* interrupted, and after as many calls the same ScannerState.              *)
C13_CheckpointRestore ==
  run.branch # <<>> =>
    /\ \A k \in 1..Len(Branch.trace) :
         Ckpt.done + k <= Len(run.trace) =>
           Branch.trace[k] = run.trace[Ckpt.done + k]
    /\ Branch.done = run.done => Branch.state = state

(* a snapshot taken after a newline was counted, restored into a used       *)
(* ScannerState, from which the whole rest of the script was run and        *)
(* another newline counted                                                  *)
C13_Witness ==
  /\ run.branch # <<>>
  /\ Ckpt.done >= 1
  /\ Ckpt.pos >= 1
  /\ Ckpt.target = <<[in_tune_body |-> TRUE, in_text_block |-> TRUE,
                      line_number |-> 65535]>>
  /\ Branch.done = Len(run.script)
  /\ run.done = Len(run.script)
  /\ buffer[4] >= 2
  /\ \E k \in 1..Len(Branch.trace) :
       Branch.trace[k].kind = "EOL" /\ Branch.trace[k].line = buffer[4] + 1
  /\ Branch.state = state

(* the outcome of a call of a session computed from its ScannerState, the   *)
(* text that remains under its cursor and the mask alone                    *)
FreshOutcome(sess, mask) ==
  Outcome(sess.base + sess.lexer.pos,
          tree_sitter_abc_external_scanner_scan(
            Suffix(sess.input, sess.lexer.pos),
            Entry(create_test_lexer, sess.state), mask))

TuneKinds ==
  << "INF_HDR", "INFO_STR", "EOL", "INF_HDR", "INFO_STR", "EOL",
     "NOTE_LETTER", "NOTE_LETTER", "NOTE_LETTER", "BARLINE", "EOL" >>
TuneEnds == << 2, 3, 4, 6, 7, 8, 9, 10, 11, 12, 13 >>

(* C17: the text X:1 K:C ABC| of three lines, scanned from a new            *)
(* ScannerState with one mask per token, gives INF_HDR X:, INFO_STR 1, EOL, *)
(* INF_HDR K:, INFO_STR C, EOL, NOTE_LETTER A, B, C, BARLINE and EOL, one   *)
(* token per call; then line_number is 4 and the cursor at the end.         *)
C17_Tune ==
  (input = Tune /\ run.script = TuneScript) =>
    /\ \A k \in 1..run.done :
         /\ run.trace[k].ret
         /\ run.trace[k].kind = TuneKinds[k]
         /\ run.trace[k].end = TuneEnds[k]
         /\ run.trace[k].pos = TuneEnds[k]
    /\ run.done = Len(TuneScript) =>
         /\ state.line_number = 4
         /\ lexer.pos = Len(input)

C17_Witness ==
  /\ input = Tune
  /\ run.script = TuneScript
  /\ run.done = 11
  /\ call.ret
  /\ lexer.result_symbol = "EOL"

(* C15: every scan call invokes advance no more often than there are        *)
(* characters left under the cursor, and a session whose masks all hold     *)
(* TT_EOF and TT_INVALID, over a finite text, is in the end given TT_EOF:   *)
(* every call before that consumes a character at least, so that there are  *)
(* no more such calls than characters, and the call after them gives TT_EOF. *)
C15_Terminates ==
  pc = "live" =>
    /\ call.advances <= Len(input) - call.start
    /\ ~EofEmitted => run.done <= lexer.pos
    /\ run.done > Len(input) => EofEmitted

(* TT_EOF after a text of two characters at least, whose end was reached by *)
(* a call that consumed without marking                                     *)
C15_Witness ==
  /\ EofEmitted
  /\ Len(input) >= 2
  /\ call.start = Len(input)
  /\ lexer.mark_pos < lexer.pos

(* the lookahead of a direct call at its entry *)
EntryLookahead == IF call.start < Len(input) THEN input[call.start + 1] ELSE 0

(* C16: no call changes in_tune_body or in_text_block; line_number is       *)
(* changed by the newline matcher only; and a call whose lookahead at entry *)
(* is neither a line feed nor a carriage return leaves the whole            *)
(* ScannerState as it was.                                                  *)
C16_StateFrame ==
  pc = "done" =>
    /\ state.in_tune_body = call.entry.in_tune_body
    /\ state.in_text_block = call.entry.in_text_block
    /\ state.line_number # call.entry.line_number =>
         call.fn \in {"scan_section_break", "scan"}
    /\ EntryLookahead \notin LineEnd => state = call.entry

(* scan with every kind valid was called on a text that has a newline after *)
(* its first character, in a state with both flags set                      *)
C16_Witness ==
  /\ pc = "done"
  /\ call.fn = "scan"
  /\ valid_symbols = TokenType
  /\ call.entry.in_tune_body
  /\ call.entry.in_text_block
  /\ EntryLookahead \notin LineEnd
  /\ Len(input) >= 2
  /\ input[2] = Ord["LF"]
  /\ lexer.pos >= 1
  /\ state = call.entry

(* a direct call of scan on a text of c followed by one of next, with both  *)
(* kinds of a pair valid                                                    *)
Competing(a, b, c, next) ==
  /\ pc = "done"
  /\ call.fn = "scan"
  /\ a \in valid_symbols
  /\ b \in valid_symbols
  /\ Len(input) >= 1
  /\ input[1] = c
  /\ next # {} => (Len(input) >= 2 /\ input[2] \in next)

Yields(kind) == call.ret /\ lexer.result_symbol = kind

(* C18: with TT_BARLINE and a left-bracket kind valid, '[|' and '[' before  *)
(* a digit give TT_BARLINE; with TT_TUPLET_LPAREN and TT_SLUR valid, '('    *)
(* before a digit gives TT_TUPLET_LPAREN; with TT_LINE_CONT and             *)
(* TT_ESCAPED_CHAR valid, a backslash gives TT_LINE_CONT; with TT_Y_SPC and *)
(* TT_NOTE_LETTER valid, 'y' gives TT_Y_SPC.                                *)
C18_PriorityOrder ==
  /\ \A bracket \in {"CHRD_LEFT_BRKT", "INLN_FLD_LFT_BRKT"} :
       Competing("BARLINE", bracket, Ord["["], {Ord["|"]} \cup Digits)
         => Yields("BARLINE")
  /\ Competing("TUPLET_LPAREN", "SLUR", Ord["("], Digits)
       => Yields("TUPLET_LPAREN")
  /\ Competing("LINE_CONT", "ESCAPED_CHAR", Ord["BSLASH"], {})
       => Yields("LINE_CONT")
  /\ Competing("Y_SPC", "NOTE_LETTER", Ord["y"], {}) => Yields("Y_SPC")

(* '[' before a digit was given as a barline of two characters although the *)
(* chord bracket was valid too                                              *)
C18_Witness ==
  /\ Competing("BARLINE", "CHRD_LEFT_BRKT", Ord["["], Digits)
  /\ valid_symbols = {"BARLINE", "CHRD_LEFT_BRKT"}
  /\ Yields("BARLINE")
  /\ lexer.mark_pos = 2

(* c is a character the pattern of f can start with: some text that begins  *)
(* with c is matched by f                                                   *)
CanStart(f, c) ==
  \E in \in UnitInputs(f) :
    /\ in # <<>>
    /\ in[1] = c
    /\ \E v \in UnitMasks(f) :
         SubScan(f, in, Entry(create_test_lexer,
                              tree_sitter_abc_external_scanner_create), v).ok

(* C19: a sub-scanner whose lookahead at entry is no character its pattern  *)
(* can start with returns no match and leaves the cursor and the marked end *)
(* where they were: a call that returned no match but advanced, moved the   *)
(* cursor or marked an end began at a character that starts some match (and *)
(* so does, by its own text, a call that matched).                          *)
C19_GuardFailureConsumesNothing ==
  (/\ pc = "done"
   /\ call.fn \in SubScanners
   /\ ~call.ret
   /\ \/ lexer.pos # call.start
      \/ call.advances > 0
      \/ call.marks > 0
      \/ lexer.mark_pos # 0)
    => CanStart(call.fn, EntryLookahead)

(* scan_repeat_number was given a letter, scan_note_letter a 'z': both      *)
(* returned no match with the cursor and the marked end at 0                *)
C19_Witness ==
  /\ pc = "done"
  /\ call.fn \in {"scan_repeat_number", "scan_note_letter"}
  /\ Len(input) >= 2
  /\ ~CanStart(call.fn, EntryLookahead)
  /\ ~call.ret
  /\ lexer.pos = 0
  /\ lexer.mark_pos = 0

(* the sub-scanners of one character: for each the characters of its class  *)
(* and the kind it gives them                                               *)
One(f, chars, kind) == [fn |-> f, chars |-> chars, kind |-> kind]

SingleCharTokens ==
  { One("scan_note_letter", {c \in 0..127 : is_note_letter(c)}, "NOTE_LETTER"),
    One("scan_rest", {c \in 0..127 : is_rest_char(c)}, "REST"),
    One("scan_tie", {Ord["-"]}, "TIE"),
    One("scan_slur", {Ord["("], Ord[")"]}, "SLUR"),
    One("scan_chord_bracket", {Ord["["]}, "CHRD_LEFT_BRKT"),
    One("scan_chord_bracket", {Ord["]"]}, "CHRD_RIGHT_BRKT"),
    One("scan_inline_field_left", {Ord["["]}, "INLN_FLD_LFT_BRKT"),
    One("scan_inline_field_right", {Ord["]"]}, "INLN_FLD_RGT_BRKT"),
    One("scan_lbracket", {Ord["["]}, "LBRACKET"),
    One("scan_rbracket", {Ord["]"]}, "RBRACKET"),
    One("scan_grace_brace", {Ord["{"]}, "GRC_GRP_LEFT_BRACE"),
    One("scan_grace_brace", {Ord["}"]}, "GRC_GRP_RGHT_BRACE"),
    One("scan_lbrace", {Ord["{"]}, "LBRACE"),
    One("scan_rbrace", {Ord["}"]}, "RBRACE"),
    One("scan_equals", {Ord["="]}, "EQL"),
    One("scan_slash", {Ord["/"]}, "SLASH"),
    One("scan_minus", {Ord["-"]}, "MINUS"),
    One("scan_plus", {Ord["+"]}, "PLUS"),
    One("scan_lparen", {Ord["("]}, "LPAREN"),
    One("scan_rparen", {Ord[")"]}, "RPAREN"),
    One("scan_pipe", {Ord["|"]}, "PIPE"),
    One("scan_system_break", {Ord["$"]}, "SYSTEM_BREAK"),
    One("scan_backtick_spacer", {Ord["BTICK"]}, "BCKTCK_SPC"),
    One("scan_y_spacer", {Ord["y"]}, "Y_SPC"),
    One("scan_reserved_char", {Ord["#"], Ord[";"], Ord["?"], Ord["@"]},
        "RESERVED_CHAR"),
    One("scan_lyric_star", {Ord["*"]}, "LY_STAR"),
    One("scan_lyric_underscore", {Ord["_"]}, "LY_UNDR"),
    One("scan_lyric_tilde", {Ord["~"]}, "LY_SPS"),
    One("scan_symbol_star", {Ord["*"]}, "SY_STAR") }

(* C20: a sub-scanner of one character, given a text whose first character  *)
(* is of its class, returns its kind, advances once and marks the end after *)
(* that character, whatever follows it.                                     *)
C20_SingleCharacter ==
  pc = "done" =>
    \A t \in SingleCharTokens :
      (call.fn = t.fn /\ EntryLookahead \in t.chars) =>
        /\ call.ret
        /\ lexer.result_symbol = t.kind
        /\ lexer.pos = 1
        /\ lexer.mark_pos = 1
        /\ call.advances = 1
        /\ call.marks = 1

(* a rest, a note letter or a slur followed by another of its class: one    *)
(* character was taken                                                      *)
C20_Witness ==
  /\ pc = "done"
  /\ \E t \in SingleCharTokens :
       /\ t.fn \in {"scan_rest", "scan_note_letter", "scan_slur"}
       /\ call.fn = t.fn
       /\ Len(input) >= 2
       /\ input[1] \in t.chars
       /\ input[2] = input[1]
       /\ lexer.result_symbol = t.kind
  /\ call.ret
  /\ lexer.pos = 1

----------------------------------------------------------------------------
(* Properties of the single matchers (SpecUnit)                             *)

(* the number of characters at the head of the text that are in S *)
RECURSIVE RunLength(_, _)
RunLength(in, S) ==
  IF in # <<>> /\ Head(in) \in S THEN 1 + RunLength(Tail(in), S) ELSE 0

Class(f, chars, kind) == [fn |-> f, chars |-> chars, kind |-> kind]

(* the matchers of a run of characters of one class *)
ClassRunTokens ==
  { Class("scan_whitespace", {c \in 0..127 : is_ws_char(c)}, "WS"),
    Class("scan_octave", {c \in 0..127 : is_octave_char(c)}, "OCTAVE"),
    Class("scan_decoration", {c \in 0..127 : is_decoration_char(c)},
          "DECORATION"),
    Class("scan_broken_rhythm", {c \in 0..127 : is_broken_rhythm_char(c)},
          "RHY_BRKN"),
    Class("scan_number", {c \in 0..127 : is_digit(c)}, "RHY_NUMER"),
    Class("scan_rhythm_denom", {c \in 0..127 : is_digit(c)}, "RHY_DENOM"),
    Class("scan_general_number", {c \in 0..127 : is_digit(c)}, "NUMBER"),
    Class("scan_tuplet_p", {c \in 0..127 : is_digit(c)}, "TUPLET_P"),
    Class("scan_tuplet_q", {c \in 0..127 : is_digit(c)}, "TUPLET_Q"),
    Class("scan_tuplet_r", {c \in 0..127 : is_digit(c)}, "TUPLET_R") }

(* C21: a matcher of a class run, given a text that begins with a character *)
(* of its class, returns one token of its kind that ends exactly before the *)
(* first character not of the class (or at the end of the text), different  *)
(* characters of the class being part of the same token.                    *)
C21_MaximalMunch ==
  pc = "done" =>
    \A t \in ClassRunTokens :
      (call.fn = t.fn /\ EntryLookahead \in t.chars) =>
        /\ call.ret
        /\ lexer.result_symbol = t.kind
        /\ lexer.pos = RunLength(input, t.chars)
        /\ lexer.mark_pos = RunLength(input, t.chars)
        /\ call.marks = 1

(* two different characters of the class and then one that is not of it:    *)
(* one token of two characters                                              *)
C21_Witness ==
  /\ pc = "done"
  /\ \E t \in ClassRunTokens :
       /\ t.fn \in {"scan_octave", "scan_decoration", "scan_number"}
       /\ call.fn = t.fn
       /\ Len(input) = 3
       /\ input[1] \in t.chars
       /\ input[2] \in t.chars
       /\ input[2] # input[1]
       /\ input[3] \notin t.chars
       /\ lexer.result_symbol = t.kind
  /\ call.ret
  /\ lexer.mark_pos = 2
  /\ lexer.pos = 2

AccidentalChars == {Ord["^"], Ord["_"], Ord["="]}

AccidentalCall ==
  /\ pc = "done"
  /\ call.fn = "scan_accidental"
  /\ EntryLookahead \in AccidentalChars

(* the length of the accidental at the head of the text: ^ ^^ ^/ _ __ _/ = *)
AccidentalLength ==
  IF /\ input[1] \in {Ord["^"], Ord["_"]}
     /\ Len(input) >= 2
     /\ input[2] \in {input[1], Ord["/"]}
    THEN 2 ELSE 1

(* C22: the accidental matcher takes one of the forms ^ ^^ ^/ _ __ _/ =:    *)
(* the first character and, after ^ or _, one more if it is the same        *)
(* character or a slash; it returns one ACCIDENTAL over these one or two    *)
(* characters and leaves the accidental characters that follow.             *)
C22_AccidentalForms ==
  AccidentalCall =>
    /\ call.ret
    /\ lexer.result_symbol = "ACCIDENTAL"
    /\ lexer.pos = AccidentalLength
    /\ lexer.mark_pos = AccidentalLength
    /\ call.marks = 1

(* three sharps: the token is the first two *)
C22_Witness ==
  /\ AccidentalCall
  /\ input = <<Ord["^"], Ord["^"], Ord["^"]>>
  /\ call.ret
  /\ lexer.mark_pos = 2

(* C22 as stated: the token is the whole run of accidental characters. *)
C22_AccidentalRun ==
  AccidentalCall =>
    /\ call.ret
    /\ lexer.mark_pos = RunLength(input, AccidentalChars)

(* the barline shapes of test_barline.c, as texts *)
BarlineShapes ==
  { <<Ord["|"]>>, <<Ord["|"], Ord["|"]>>, <<Ord["|"], Ord["]"]>>,
    <<Ord["["], Ord["|"]>>, <<Ord["|"], Ord[":"]>>, <<Ord[":"], Ord["|"]>>,
    <<Ord[":"], Ord[":"]>>, <<Ord[":"], Ord[":"], Ord["|"]>>,
    <<Ord["|"], Ord["1"]>>, <<Ord["["], Ord["1"]>>,
    <<Ord["["], Ord["|"], Ord[":"]>> }

SecondChar == IF Len(input) >= 2 THEN input[2] ELSE 0

BarlineCall == pc = "done" /\ call.fn = "scan_barline"

(* C23: on each of the texts | || |] [| |: :| :: ::| |1 [1 [|: the barline  *)
(* matcher returns BARLINE over the whole text; on a colon not followed by  *)
(* a bar or a colon, and on an opening bracket not followed by a bar or a   *)
(* digit, it returns no token with the cursor at 1; on any other first      *)
(* character it returns no token with the cursor at 0.                      *)
C23_BarlineShapes ==
  BarlineCall =>
    /\ input \in BarlineShapes =>
         /\ call.ret /\ lexer.result_symbol = "BARLINE"
         /\ lexer.pos = Len(input) /\ lexer.mark_pos = Len(input)
    /\ (EntryLookahead = Ord[":"] /\ SecondChar \notin {Ord["|"], Ord[":"]}) =>
         ~call.ret /\ lexer.pos = 1 /\ call.advances = 1 /\ call.marks = 0
    /\ (EntryLookahead = Ord["["] /\ SecondChar # Ord["|"] /\ ~is_digit(SecondChar)) =>
         ~call.ret /\ lexer.pos = 1 /\ call.advances = 1 /\ call.marks = 0
    /\ EntryLookahead \notin {Ord["|"], Ord[":"], Ord["["]} =>
         ~call.ret /\ lexer.pos = 0 /\ call.advances = 0 /\ call.marks = 0

(* the three-character shape that begins with colons *)
C23_Witness ==
  /\ BarlineCall
  /\ input = <<Ord[":"], Ord[":"], Ord["|"]>>
  /\ call.ret
  /\ lexer.mark_pos = 3

C23_WitnessBracket ==
  /\ BarlineCall
  /\ input = <<Ord["["], Ord["A"]>>
  /\ ~call.ret
  /\ lexer.pos = 1

TupletParenCall == pc = "done" /\ call.fn = "scan_tuplet_lparen"

(* C24: on an opening parenthesis the tuplet matcher always steps past it:  *)
(* before a digit it returns TUPLET_LPAREN over the parenthesis alone, the  *)
(* cursor at 1 and the digit not consumed; before anything else it returns  *)
(* no token with the cursor at 1; on another first character it consumes    *)
(* nothing.                                                                 *)
C24_TupletParen ==
  TupletParenCall =>
    /\ EntryLookahead = Ord["("] =>
         /\ lexer.pos = 1 /\ call.advances = 1
         /\ call.ret <=> is_digit(SecondChar)
         /\ call.ret => lexer.result_symbol = "TUPLET_LPAREN" /\ lexer.mark_pos = 1
    /\ EntryLookahead # Ord["("] =>
         ~call.ret /\ lexer.pos = 0 /\ call.advances = 0

(* a parenthesis and a digit with more text behind *)
C24_Witness ==
  /\ TupletParenCall
  /\ Len(input) = 3
  /\ input[1] = Ord["("] /\ is_digit(input[2])
  /\ call.ret
  /\ lexer.pos = 1

C24_WitnessSlur ==
  /\ TupletParenCall
  /\ input = <<Ord["("], Ord["A"]>>
  /\ ~call.ret
  /\ lexer.pos = 1

PercentCall ==
  /\ pc = "done"
  /\ call.fn = "scan_percent_token"
  /\ EntryLookahead = Ord["%"]

(* the characters of the text before its first line feed or carriage return *)
LineLength == RunLength(input, (0..127) \ LineEnd)

PercentKind ==
  IF SecondChar = Ord["%"] THEN "STYLESHEET_DIRECTIVE" ELSE "COMMENT"

(* C25: on a percent sign the percent matcher consumes the rest of the      *)
(* line and stops before the first line feed, carriage return or the end    *)
(* of the text; the kind is STYLESHEET_DIRECTIVE when the second character  *)
(* is a percent sign and COMMENT otherwise; the token is returned only      *)
(* when that kind is valid, and when it is not the line stays consumed and  *)
(* no token is returned.                                                    *)
C25_PercentLine ==
  PercentCall =>
    /\ lexer.pos = LineLength
    /\ lexer.mark_pos = LineLength
    /\ call.ret <=> PercentKind \in valid_symbols
    /\ call.ret => lexer.result_symbol = PercentKind

(* a comment that is not valid here: consumed up to the line end, no token *)
C25_Witness ==
  /\ PercentCall
  /\ Len(input) = 3
  /\ input[2] \notin LineEnd \cup {Ord["%"]}
  /\ input[3] \in LineEnd
  /\ "COMMENT" \notin valid_symbols
  /\ ~call.ret
  /\ lexer.pos = 2

C25_WitnessDirective ==
  /\ PercentCall
  /\ input = <<Ord["%"], Ord["%"], Ord["A"]>>
  /\ valid_symbols = {"STYLESHEET_DIRECTIVE"}
  /\ call.ret
  /\ lexer.mark_pos = 3

AnnotationCall ==
  /\ pc = "done"
  /\ call.fn = "scan_annotation"
  /\ EntryLookahead = Ord["DQUOTE"]

(* character i of the text follows a backslash that is not itself escaped;  *)
(* character 2 is the first one inside the quotes                           *)
RECURSIVE Escaped(_)
Escaped(i) ==
  /\ i >= 3
  /\ input[i - 1] = Ord["BSLASH"]
  /\ ~Escaped(i - 1)

Least(S) == CHOOSE i \in S : \A j \in S : i <= j

(* index of the first line feed inside the quotes, of the first quote that  *)
(* is not escaped; one past the text when there is none                     *)
FirstNewline ==
  Least({i \in 2..Len(input) : input[i] = Ord["LF"]} \cup {Len(input) + 1})

ClosingQuote ==
  Least({i \in 2..Len(input) : input[i] = Ord["DQUOTE"] /\ ~Escaped(i)}
        \cup {Len(input) + 1})

AnnotationEnd ==
  IF ClosingQuote < FirstNewline THEN ClosingQuote
  ELSE IF FirstNewline <= Len(input) THEN FirstNewline - 1
  ELSE Len(input)

(* C26: on a double quote the annotation matcher always returns ANNOTATION; *)
(* a quote that follows an unescaped backslash does not end the token; the  *)
(* token ends just after the first quote that is not escaped, or, when      *)
(* there is none on the line, just before the line feed or at the end of    *)
(* the text, and it covers everything consumed.                             *)
C26_Annotation ==
  AnnotationCall =>
    /\ call.ret
    /\ lexer.result_symbol = "ANNOTATION"
    /\ lexer.mark_pos = AnnotationEnd
    /\ lexer.pos = lexer.mark_pos

(* an escaped quote inside, then the closing quote *)
C26_Witness ==
  /\ AnnotationCall
  /\ input = <<Ord["DQUOTE"], Ord["BSLASH"], Ord["DQUOTE"], Ord["DQUOTE"]>>
  /\ call.ret
  /\ lexer.mark_pos = 4

C26_WitnessUnterminated ==
  /\ AnnotationCall
  /\ input = <<Ord["DQUOTE"], Ord["A"], Ord["LF"]>>
  /\ call.ret
  /\ lexer.mark_pos = 2

InfoHeaderCall == pc = "done" /\ call.fn = "scan_info_header"

(* C27: the info header matcher, on a letter immediately followed by a      *)
(* colon, returns INF_HDR over exactly these two characters; on a letter    *)
(* followed by anything else it consumes the letter and returns it as       *)
(* IDENTIFIER when IDENTIFIER is valid, and returns no token with the       *)
(* letter consumed when it is not; on a first character that is not a       *)
(* letter it consumes nothing.                                              *)
C27_InfoHeader ==
  InfoHeaderCall =>
    /\ (is_alpha(EntryLookahead) /\ SecondChar = Ord[":"]) =>
         /\ call.ret /\ lexer.result_symbol = "INF_HDR"
         /\ lexer.pos = 2 /\ lexer.mark_pos = 2
    /\ (is_alpha(EntryLookahead) /\ SecondChar # Ord[":"]) =>
         /\ lexer.pos = 1 /\ lexer.mark_pos = 1
         /\ call.ret <=> "IDENTIFIER" \in valid_symbols
         /\ call.ret => lexer.result_symbol = "IDENTIFIER"
    /\ ~is_alpha(EntryLookahead) =>
         ~call.ret /\ lexer.pos = 0 /\ call.advances = 0 /\ call.marks = 0

(* a letter before another letter, IDENTIFIER not valid: the letter is lost *)
C27_Witness ==
  /\ InfoHeaderCall
  /\ Len(input) >= 2
  /\ is_alpha(input[1]) /\ is_alpha(input[2])
  /\ "IDENTIFIER" \notin valid_symbols
  /\ ~call.ret
  /\ lexer.pos = 1

C27_WitnessHeader ==
  /\ InfoHeaderCall
  /\ input = <<Ord["A"], Ord[":"], Ord["A"]>>
  /\ call.ret
  /\ lexer.result_symbol = "INF_HDR"
  /\ lexer.mark_pos = 2

---------------------------------------------------------------------------
(* The native helper (src/native/src): one JSON command per line on stdin,  *)
(* one JSON response per line on stdout                                     *)

MaxCommands == 4
MaxCallbacks == 2

(* JSON values, tagged with their kind; the items of an object are a        *)
(* function from its keys                                                   *)
Null == [type |-> "null"]
Bool(b) == [type |-> "boolean", v |-> b]
Num(n) == [type |-> "number", v |-> n]
Str(t) == [type |-> "string", v |-> t]
Arr(q) == [type |-> "array", items |-> q]
Obj(f) == [type |-> "object", items |-> f]

(* j.contains(key): false on anything that is not an object *)
contains(j, key) == j.type = "object" /\ key \in DOMAIN j.items

(* std::optional *)
nullopt == [has |-> FALSE]
Some(x) == [has |-> TRUE, v |-> x]

COMMAND_MAP ==
  [load_library |-> "LoadLibrary", get_instruments |-> "GetInstruments",
   create_session |-> "CreateSession", destroy_session |-> "DestroySession",
   add_track |-> "AddTrack", finalize_track |-> "FinalizeTrack",
   clear_track |-> "ClearTrack", add_note_event |-> "AddNoteEvent",
   add_dynamics_event |-> "AddDynamicsEvent", play |-> "Play",
   pause |-> "Pause", seek |-> "Seek", stop |-> "Stop", quit |-> "Quit"]

(* struct Command as default-constructed *)
Command ==
  [type |-> "Unknown", raw |-> "", path |-> nullopt, sessionId |-> nullopt,
   trackId |-> nullopt, instrumentId |-> nullopt, sampleRate |-> nullopt,
   blockSize |-> nullopt, channels |-> nullopt, positionUs |-> nullopt,
   noteEvent |-> nullopt, dynamicsEvent |-> nullopt]

(* j.value(key, default) *)
Value(j, key, default) == IF contains(j, key) THEN j.items[key].v ELSE default

noteEventFromJson(j) ==
  [voice |-> Value(j, "voice", 0), location_us |-> Value(j, "location_us", 0),
   duration_us |-> Value(j, "duration_us", 0), pitch |-> Value(j, "pitch", 60),
   tempo |-> Value(j, "tempo", 120),
   offset_cents |-> Value(j, "offset_cents", 0),
   articulation |-> Value(j, "articulation", 0),
   articulation_2 |-> Value(j, "articulation_2", 0),
   notehead |-> Value(j, "notehead", 0)]

(* the default of value is 0.5, written as the fraction 1/2 *)
dynamicsEventFromJson(j) ==
  [location_us |-> Value(j, "location_us", 0),
   value |-> Value(j, "value", <<1, 2>>)]

(* the keys parseCommand reads with getOptional<T>, in its order, and the    *)
(* JSON kind that get<T>() accepts for each                                 *)
OptionalKeys ==
  <<[key |-> "path", kind |-> "string", field |-> "path"],
    [key |-> "session_id", kind |-> "number", field |-> "sessionId"],
    [key |-> "track_id", kind |-> "number", field |-> "trackId"],
    [key |-> "instrument_id", kind |-> "number", field |-> "instrumentId"],
    [key |-> "sample_rate", kind |-> "number", field |-> "sampleRate"],
    [key |-> "block_size", kind |-> "number", field |-> "blockSize"],
    [key |-> "channels", kind |-> "number", field |-> "channels"],
    [key |-> "position_us", kind |-> "number", field |-> "positionUs"]>>

(* getOptional<T>(j, key) throws when the value is there, not null and not  *)
(* of a kind get<T>() converts                                              *)
Throws(j, k) ==
  contains(j, k.key) /\ j.items[k.key].type \notin {"null", k.kind}

getOptional(j, key) ==
  IF contains(j, key) /\ j.items[key].type # "null"
    THEN Some(j.items[key].v) ELSE nullopt

(* parseCommand: a line is its text and what json::parse makes of it; an    *)
(* exception leaves what was assigned before it and sets the type Unknown   *)
parseCommand(line) ==
  LET j == line.json
      cmd == [Command EXCEPT !.raw = line.raw]
  IN
  IF j.type = "parse_error" THEN cmd
  ELSE
    LET type == IF /\ contains(j, "cmd")
                   /\ j.items.cmd.type = "string"
                   /\ j.items.cmd.v \in DOMAIN COMMAND_MAP
                  THEN COMMAND_MAP[j.items.cmd.v] ELSE "Unknown"
        thrown == {i \in 1..Len(OptionalKeys) : Throws(j, OptionalKeys[i])}
        read(i) == \A t \in thrown : i < t
        opt(i) == IF read(i) THEN getOptional(j, OptionalKeys[i].key)
                  ELSE nullopt
    IN [type |-> IF thrown = {} THEN type ELSE "Unknown",
        raw |-> line.raw,
        path |-> opt(1), sessionId |-> opt(2), trackId |-> opt(3),
        instrumentId |-> opt(4), sampleRate |-> opt(5), blockSize |-> opt(6),
        channels |-> opt(7), positionUs |-> opt(8),
        noteEvent |->
          IF thrown = {} /\ contains(j, "event") /\ j.items.event.type = "object"
            THEN Some(noteEventFromJson(j.items.event)) ELSE nullopt,
        dynamicsEvent |->
          IF /\ thrown = {} /\ contains(j, "dynamics")
             /\ j.items.dynamics.type = "object"
            THEN Some(dynamicsEventFromJson(j.items.dynamics)) ELSE nullopt]

(* struct Response as default-constructed *)
Response == [ok |-> TRUE, error |-> "", data |-> Null]

(* an error response that carries no message *)
errorResponse_silent(message) == [Response EXCEPT !.ok = FALSE]

successResponse(data) == [Response EXCEPT !.ok = TRUE, !.data = data]

errorResponse(message) == [Response EXCEPT !.ok = FALSE, !.error = message]

(* Response::toJson; data is null or an object, whose items are assigned    *)
(* last and so replace a key of the same name                               *)
toJson(resp) ==
  LET j0 == "ok" :> Bool(resp.ok)
      j1 == IF ~resp.ok /\ resp.error # ""
              THEN ("error" :> Str(resp.error)) @@ j0 ELSE j0
  IN Obj(IF resp.data.type # "null" THEN resp.data.items @@ j1 ELSE j1)

instrumentToJson(inst) ==
  Obj([id |-> Num(inst.id), name |-> Str(inst.name),
       category |-> Str(inst.category), pack_name |-> Str(inst.packName)])

(* what the loaded library reports *)
LibraryVersion == [major |-> 0, minor |-> 6, revision |-> 3]

LibraryInstruments ==
  <<[id |-> 1, name |-> "Piano", category |-> "Keys", packName |-> "Muse"]>>

toString(version) ==
  ToString(version.major) \o "." \o ToString(version.minor) \o "."
    \o ToString(version.revision)

isLoaded(S) == S.wrapper.lib /\ S.wrapper.initialized

(* AppState::getSession: the entry of the id, if any *)
HasSession(S, id) == \E p \in S.sessions : p.id = id

getSession(S, id) == CHOOSE p \in S.sessions : p.id = id

(* the session of the id replaced by q *)
SetSession(S, q) ==
  [S EXCEPT !.sessions = {p \in @ : p.id # q.id} \cup {q}]

(* AppState::createSession; created and inited are the outcomes of          *)
(* wrapper.createSession and wrapper.initSession                            *)
createSession(S, sampleRate, created, inited) ==
  IF ~created \/ ~inited THEN [id |-> -1, state |-> S]
  ELSE [id |-> S.nextSessionId,
        state |-> [S EXCEPT
          !.nextSessionId = @ + 1,
          !.sessions = @ \cup {[id |-> S.nextSessionId, tracks |-> 0,
                                playing |-> FALSE, position |-> 0,
                                sampleRate |-> sampleRate]}]]

(* AppState::destroySession *)
destroySession(S, id) == [S EXCEPT !.sessions = {p \in @ : p.id # id}]

(* AppState::addTrack; added is the outcome of wrapper.addTrack *)
addTrack(S, sessionId, added) ==
  IF ~HasSession(S, sessionId) \/ ~added THEN [id |-> -1, state |-> S]
  ELSE LET p == getSession(S, sessionId) IN
       [id |-> S.nextTrackId,
        state |-> [SetSession(S, [p EXCEPT !.tracks = @ + 1]) EXCEPT
          !.nextTrackId = @ + 1,
          !.trackToSession = @ \cup {<<S.nextTrackId, sessionId>>}]]

(* AudioOutput::start and AudioOutput::stop; device is the outcome of       *)
(* ma_device_start, ma_device_stop                                          *)
start(audio, device) ==
  IF ~audio.initialized THEN [ok |-> FALSE, audio |-> audio]
  ELSE IF audio.playing THEN [ok |-> TRUE, audio |-> audio]
  ELSE IF ~device THEN [ok |-> FALSE, audio |-> audio]
  ELSE [ok |-> TRUE, audio |-> [audio EXCEPT !.playing = TRUE]]

stop(audio, device) ==
  IF ~audio.initialized \/ ~audio.playing \/ ~device THEN audio
  ELSE [audio EXCEPT !.playing = FALSE]

(* AudioOutput::shutdown *)
shutdown(audio) ==
  IF audio.initialized
    THEN [audio EXCEPT !.initialized = FALSE, !.playing = FALSE]
    ELSE audio

(* the frames of one block: PlaybackSession::blockSize *)
FrameCount == 512

(* the callback of Play behind its check of playing: process() and          *)
(* session->position += frameCount on the captured session. position is not *)
(* atomic and not guarded by the mutex of the callback: with stale, the sum *)
(* is stored over a position the command thread wrote after the callback    *)
(* read it. On a destroyed session the access is to freed memory.           *)
finishCallback(S, stale) ==
  LET idle == [S.audio EXCEPT !.inflight = 0, !.latched = 0] IN
  IF S.audio.inflight = 0 THEN S
  ELSE IF ~HasSession(S, S.audio.inflight)
    THEN [S EXCEPT !.audio = [idle EXCEPT !.useAfterFree = TRUE]]
  ELSE
    LET p == getSession(S, S.audio.inflight)
        base == IF stale THEN S.audio.latched ELSE p.position
    IN [SetSession(S, [p EXCEPT !.position = base + FrameCount])
          EXCEPT !.audio = idle]

(* the device is stopped or closed only after the invocation of the         *)
(* callback that is under way has returned; so is the callback replaced     *)
join(S, stale) == finishCallback(S, stale)

(* a return of handleCommand: the Response, the function that built it and  *)
(* the AppState left behind                                                 *)
Err(S, message) ==
  [resp |-> errorResponse(message), by |-> "errorResponse", state |-> S]

Ok(S, data) ==
  [resp |-> successResponse(data), by |-> "successResponse", state |-> S]

(* the cases of handleCommand that need a session: the error returns they   *)
(* share, then what they do to the session p                                *)
WithSession(cmd, S, missing, then(_)) ==
  IF ~cmd.sessionId.has THEN Err(S, missing)
  ELSE IF ~HasSession(S, cmd.sessionId.v) THEN Err(S, "Invalid session")
  ELSE then(getSession(S, cmd.sessionId.v))

(* FinalizeTrack, AddNoteEvent, AddDynamicsEvent: a wrapper call on the     *)
(* last track of the session                                                *)
OnLastTrack(cmd, S, has, missing, done, failed) ==
  IF ~has THEN Err(S, missing)
  ELSE IF \/ ~HasSession(S, cmd.sessionId.v)
          \/ getSession(S, cmd.sessionId.v).tracks = 0
    THEN Err(S, "Invalid session or track")
  ELSE IF ~done THEN Err(S, failed)
  ELSE Ok(S, Null)

(* handleCommand; e[1], e[2], e[3] are the outcomes of the calls into the   *)
(* library and the audio device, in the order the case makes them           *)
handleCommand(cmd, S, e) ==
  CASE cmd.type = "LoadLibrary" ->
         IF ~cmd.path.has THEN Err(S, "Missing 'path' parameter")
         ELSE IF ~e[1]
           THEN Err([S EXCEPT !.wrapper.lib = FALSE],
                    "Failed to load MuseSampler library")
         ELSE Ok([S EXCEPT !.wrapper = [lib |-> TRUE, initialized |-> TRUE]],
                 Obj([version |-> Str(toString(LibraryVersion))]))
    [] cmd.type = "GetInstruments" ->
         IF ~isLoaded(S) THEN Err(S, "Library not loaded")
         ELSE Ok(S, Obj([instruments |->
                 Arr(IF e[1]
                       THEN [i \in 1..Len(LibraryInstruments) |->
                               instrumentToJson(LibraryInstruments[i])]
                       ELSE <<>>)]))
    [] cmd.type = "CreateSession" ->
         IF ~isLoaded(S) THEN Err(S, "Library not loaded")
         ELSE
           LET sampleRate == IF cmd.sampleRate.has THEN cmd.sampleRate.v
                             ELSE 44100
               c == createSession(S, sampleRate, e[1], e[2])
           IN
           IF c.id < 0 THEN Err(c.state, "Failed to create session")
           ELSE IF ~c.state.audio.initialized /\ ~e[3]
             THEN Err(c.state, "Failed to initialize audio output")
           ELSE Ok([c.state EXCEPT !.audio.initialized = TRUE],
                   Obj([session_id |-> Num(c.id)]))
    [] cmd.type = "DestroySession" ->
         IF ~cmd.sessionId.has THEN Err(S, "Missing 'session_id' parameter")
         ELSE Ok(destroySession(S, cmd.sessionId.v), Null)
    [] cmd.type = "AddTrack" ->
         IF ~cmd.sessionId.has THEN Err(S, "Missing 'session_id' parameter")
         ELSE IF ~cmd.instrumentId.has
           THEN Err(S, "Missing 'instrument_id' parameter")
         ELSE
           LET t == addTrack(S, cmd.sessionId.v, e[1]) IN
           IF t.id < 0 THEN Err(t.state, "Failed to add track")
           ELSE Ok(t.state, Obj([track_id |-> Num(t.id)]))
    [] cmd.type = "FinalizeTrack" ->
         OnLastTrack(cmd, S, cmd.sessionId.has /\ cmd.trackId.has,
                     "Missing session_id or track_id", e[1],
                     "Failed to finalize track")
    [] cmd.type = "AddNoteEvent" ->
         OnLastTrack(cmd, S,
                     cmd.sessionId.has /\ cmd.trackId.has /\ cmd.noteEvent.has,
                     "Missing session_id, track_id, or event", e[1],
                     "Failed to add note event")
    [] cmd.type = "AddDynamicsEvent" ->
         OnLastTrack(cmd, S,
                     /\ cmd.sessionId.has /\ cmd.trackId.has
                     /\ cmd.dynamicsEvent.has,
                     "Missing session_id, track_id, or dynamics", e[1],
                     "Failed to add dynamics event")
    [] cmd.type = "Play" ->
         LET then(p) ==
               LET S0 == join(S, FALSE)
                   a == start([S0.audio EXCEPT !.callback = p.id], e[1])
                   S1 == [SetSession(S0, [getSession(S0, p.id)
                                            EXCEPT !.playing = TRUE])
                            EXCEPT !.audio = a.audio]
               IN IF ~a.ok THEN Err(S1, "Failed to start audio")
                  ELSE Ok(S1, Null)
         IN WithSession(cmd, S, "Missing 'session_id' parameter", then)
    [] cmd.type = "Pause" ->
         LET then(p) == Ok(SetSession(S, [p EXCEPT !.playing = FALSE]), Null)
         IN WithSession(cmd, S, "Missing 'session_id' parameter", then)
    [] cmd.type = "Stop" ->
         LET then(p) ==
               LET S0 == SetSession(S, [p EXCEPT !.playing = FALSE,
                                                 !.position = 0])
                   S1 == IF S.audio.initialized /\ S.audio.playing /\ e[1]
                           THEN join(S0, e[2]) ELSE S0
               IN Ok([S1 EXCEPT !.audio = stop(@, e[1])], Null)
         IN WithSession(cmd, S, "Missing 'session_id' parameter", then)
    [] cmd.type = "Seek" ->
         IF ~cmd.sessionId.has \/ ~cmd.positionUs.has
           THEN Err(S, "Missing session_id or position_us")
         ELSE
           LET then(p) ==
                 Ok(SetSession(S, [p EXCEPT !.position =
                      (cmd.positionUs.v * p.sampleRate) \div 1000000]), Null)
           IN WithSession(cmd, S, "Missing session_id or position_us", then)
    [] cmd.type = "Quit" -> Ok(S, Obj([quit |-> Bool(TRUE)]))
    [] OTHER -> Err(S, "Unknown command: " \o cmd.raw)

(* a line that holds the single byte FF, which is no UTF-8, and the strings  *)
(* of the model that hold that byte                                         *)
Latin1Line == "<FF>"

NotUtf8 == {Latin1Line, "Unknown command: " \o Latin1Line}

(* json::dump() with its default, strict error handler: the text of the     *)
(* object, or an exception (type_error.316) when a string of it is no UTF-8 *)
dump(j) ==
  IF \E key \in DOMAIN j.items :
       j.items[key].type = "string" /\ j.items[key].v \in NotUtf8
    THEN [thrown |-> TRUE, text |-> ""]
    ELSE [thrown |-> FALSE, text |-> ToString(j.items)]

(* the lines on stdin: a request object with the text it was read from, and *)
(* lines that are not a request                                             *)
Req(fields) == [raw |-> ToString(fields), json |-> Obj(fields)]

SessionIds == {1, 2}

Lines ==
  { [raw |-> "", json |-> [type |-> "parse_error"]],
    [raw |-> "{", json |-> [type |-> "parse_error"]],
    [raw |-> Latin1Line, json |-> [type |-> "parse_error"]],
    [raw |-> "7", json |-> Num(7)],
    Req([session_id |-> Num(1)]),
    Req([cmd |-> Num(1)]),
    Req([cmd |-> Str("bogus")]),
    Req([cmd |-> Str("load_library")]),
    Req([cmd |-> Str("load_library"), path |-> Str("lib.so")]),
    Req([cmd |-> Str("get_instruments")]),
    Req([cmd |-> Str("create_session")]),
    Req([cmd |-> Str("destroy_session")]),
    Req([cmd |-> Str("add_track"), session_id |-> Num(1)]),
    Req([cmd |-> Str("add_track"), session_id |-> Num(1),
         instrument_id |-> Num(1)]),
    Req([cmd |-> Str("finalize_track"), session_id |-> Num(1),
         track_id |-> Num(1)]),
    Req([cmd |-> Str("clear_track"), session_id |-> Num(1),
         track_id |-> Num(1)]),
    Req([cmd |-> Str("add_note_event"), session_id |-> Num(1),
         track_id |-> Num(1), event |-> Obj([pitch |-> Num(62)])]),
    Req([cmd |-> Str("add_note_event"), session_id |-> Num(1),
         track_id |-> Num(1)]),
    Req([cmd |-> Str("add_dynamics_event"), session_id |-> Num(1),
         track_id |-> Num(1), dynamics |-> Obj([location_us |-> Num(0)])]),
    Req([cmd |-> Str("seek"), session_id |-> Num(1),
         position_us |-> Num(1000)]),
    Req([cmd |-> Str("seek"), session_id |-> Num(1)]),
    Req([cmd |-> Str("play")]),
    Req([cmd |-> Str("play"), session_id |-> Str("1")]),
    Req([cmd |-> Str("quit")]) }
  \cup { Req([cmd |-> Str(c), session_id |-> Num(id)]) :
           c \in {"destroy_session", "play", "pause", "stop"},
           id \in SessionIds }

Outcomes == [1..3 -> BOOLEAN]

InitIpc ==
  /\ helper = Started
  /\ input = <<>>
  /\ lexer = create_test_lexer
  /\ state = tree_sitter_abc_external_scanner_create
  /\ pc = "helper"
  /\ valid_symbols = {}
  /\ call = NoCall("scan", lexer, state)
  /\ buffer = <<>>
  /\ run = NoRun

(* state.audio.shutdown() at the end of main() *)
AtExit(S) ==
  [(IF S.audio.initialized THEN join(S, FALSE) ELSE S)
     EXCEPT !.audio = shutdown(@)]

(* the body of the loop of main() for a line that is not empty: the         *)
(* response is written, and the loop is left after a quit                   *)
Respond(line, cmd, r) ==
  IF dump(toJson(r.resp)).thrown
    THEN (* no handler in main(): std::terminate, nothing is written *)
         helper' = [helper EXCEPT
           !.app = [r.state EXCEPT !.audio.playing = FALSE,
                                   !.audio.inflight = 0,
                                   !.audio.latched = 0],
           !.running = FALSE,
           !.crashed = TRUE,
           !.line = line.raw,
           !.read = @ + 1]
    ELSE helper' = [helper EXCEPT
           !.app = IF cmd.type = "Quit" THEN AtExit(r.state) ELSE r.state,
           !.running = cmd.type # "Quit",
           !.line = line.raw,
           !.read = @ + 1,
           !.written = @ + 1,
           !.response = <<[line |-> line, by |-> r.by, resp |-> r.resp,
                           json |-> toJson(r.resp)]>>]

(* while (std::getline(std::cin, line)) with a line that is not empty *)
MainLine ==
  /\ pc = "helper"
  /\ helper.running
  /\ helper.read < MaxCommands
  /\ \E line \in Lines, e \in Outcomes :
       /\ line.raw # ""
       /\ Respond(line, parseCommand(line),
                  handleCommand(parseCommand(line), helper.app, e))
  /\ UNCHANGED <<input, lexer, state, pc, valid_symbols, call, buffer, run>>

(* if (line.empty()) continue; *)
EmptyLine ==
  /\ pc = "helper"
  /\ helper.running
  /\ helper.read < MaxCommands
  /\ \E line \in Lines :
       /\ line.raw = ""
       /\ helper' = [helper EXCEPT !.line = line.raw, !.read = @ + 1]
  /\ UNCHANGED <<input, lexer, state, pc, valid_symbols, call, buffer, run>>

(* std::getline fails at the end of stdin: the loop is left and the audio   *)
(* output is shut down                                                      *)
EndOfInput ==
  /\ pc = "helper"
  /\ helper.running
  /\ helper' = [helper EXCEPT !.running = FALSE, !.app = AtExit(@)]
  /\ UNCHANGED <<input, lexer, state, pc, valid_symbols, call, buffer, run>>

(* the process killed by an access to freed memory *)
Fault == [helper EXCEPT !.running = FALSE, !.crashed = TRUE,
                        !.app.audio.playing = FALSE,
                        !.app.audio.inflight = 0,
                        !.app.audio.latched = 0,
                        !.app.audio.useAfterFree = TRUE]

(* what a read of freed memory can do: the flag reads false, or true, or    *)
(* the process dies                                                         *)
Freed == {"silent", "playing", "fault"}

(* the audio thread asks for a block while the device runs: dataCallback    *)
(* takes the mutex and calls the callback, which reads session->playing of  *)
(* the session it captured and writes silence unless it is set              *)
dataCallback ==
  /\ pc = "helper"
  /\ helper.app.audio.playing
  /\ helper.app.audio.inflight = 0
  /\ helper.frames < MaxCallbacks
  /\ LET S == helper.app
         id == S.audio.callback
         counted == [helper EXCEPT !.frames = @ + 1]
     IN
     IF id = 0 THEN helper' = counted
     ELSE IF HasSession(S, id) THEN
       LET p == getSession(S, id) IN
       helper' = IF ~p.playing THEN counted
                 ELSE [counted EXCEPT !.app.audio.inflight = id,
                                      !.app.audio.latched = p.position]
     ELSE
       \E read \in Freed :
         helper' =
           CASE read = "silent" ->
                  [counted EXCEPT !.app.audio.useAfterFree = TRUE]
             [] read = "playing" ->
                  [counted EXCEPT !.app.audio.useAfterFree = TRUE,
                                  !.app.audio.inflight = id]
             [] OTHER -> [Fault EXCEPT !.frames = @ + 1]
  /\ UNCHANGED <<input, lexer, state, pc, valid_symbols, call, buffer, run>>

(* the rest of the callback, with the commands free to run since the check  *)
(* of playing: the block is rendered and the position advanced              *)
CallbackReturn ==
  /\ pc = "helper"
  /\ helper.app.audio.inflight # 0
  /\ \E stale \in BOOLEAN, fault \in BOOLEAN :
       /\ fault => ~HasSession(helper.app, helper.app.audio.inflight)
       /\ helper' = IF fault THEN Fault
                    ELSE [helper EXCEPT !.app = finishCallback(@, stale)]
  /\ UNCHANGED <<input, lexer, state, pc, valid_symbols, call, buffer, run>>

NextIpc ==
  MainLine \/ EmptyLine \/ EndOfInput \/ dataCallback \/ CallbackReturn

SpecIpc == InitIpc /\ [][NextIpc]_vars

(* the response last written and its JSON object *)
Written == helper.response # <<>>

LastResponse == helper.response[1]

(* C28: every response the helper writes carries a boolean ok; one built by *)
(* errorResponse has ok false and a non-empty error string; one built by    *)
(* successResponse has ok true, no error field, and each of its result      *)
(* fields at the top level of the object.                                   *)
C28_ResponseShape ==
  (pc = "helper" /\ Written) =>
    LET j == LastResponse.json.items
        data == LastResponse.resp.data
    IN /\ LastResponse.json.type = "object"
       /\ "ok" \in DOMAIN j
       /\ j.ok.type = "boolean"
       /\ LastResponse.by = "errorResponse" =>
            /\ j.ok.v = FALSE
            /\ "error" \in DOMAIN j
            /\ j.error.type = "string"
            /\ j.error.v # ""
       /\ LastResponse.by = "successResponse" =>
            /\ j.ok.v = TRUE
            /\ "error" \notin DOMAIN j
            /\ data.type = "object" =>
                 /\ DOMAIN j = DOMAIN data.items \cup {"ok"}
                 /\ \A k \in DOMAIN data.items : j[k] = data.items[k]
            /\ data.type = "null" => DOMAIN j = {"ok"}

(* a session was created and an error came back for a later command *)
C28_Witness ==
  /\ pc = "helper" /\ Written
  /\ helper.app.sessions # {}
  /\ LastResponse.by = "errorResponse"
  /\ LastResponse.json.items.ok.v = FALSE
  /\ LastResponse.json.items.error.v = "Invalid session"

C28_WitnessSuccess ==
  /\ pc = "helper" /\ Written
  /\ LastResponse.by = "successResponse"
  /\ "session_id" \in DOMAIN LastResponse.json.items
  /\ LastResponse.json.items.session_id = Num(2)

---------------------------------------------------------------------------
(* Failed calls and empty tokens                                            *)

NewlineCall ==
  /\ pc = "done"
  /\ call.fn \in {"scan_section_break", "scan"}

(* C29: whenever scan_section_break, and hence scan, returns no token, the  *)
(* line number is the one from before the call: after a carriage return     *)
(* that no line feed follows, and after a newline consumed while neither    *)
(* SCT_BRK nor EOL could be returned.                                       *)
C29_FailedCallKeepsLine ==
  (NewlineCall /\ ~call.ret) =>
    state.line_number = call.entry.line_number

(* the first of the two cases alone: a carriage return that no line feed    *)
(* follows                                                                  *)
C29_BareCarriageReturn ==
  (/\ pc = "done"
   /\ call.fn = "scan_section_break"
   /\ EntryLookahead = Ord["CR"]
   /\ SecondChar # Ord["LF"]) =>
    /\ ~call.ret
    /\ lexer.pos = 1
    /\ state = call.entry

(* a call of scan has returned a token that is not the end-of-input one *)
TokenReturned ==
  /\ call.fn = "scan"
  /\ call.ret
  /\ lexer.result_symbol # "EOF"

(* C30: every token other than EOF that scan returns is non-empty: the call *)
(* has marked its end, and the end lies strictly behind the position the    *)
(* cursor had when the call began.                                          *)
C30_TokensNonEmpty ==
  (pc = "idle" /\ TokenReturned) =>
    /\ call.marks > 0
    /\ lexer.mark_pos > call.start

(* a token returned by a call that began inside the text *)
C30_Witness ==
  /\ pc = "idle"
  /\ TokenReturned
  /\ call.start > 0
  /\ lexer.result_symbol # "INVALID"
  /\ lexer.mark_pos = call.start + 1

(* the same of every matcher called on its own, and of scan where only the  *)
(* info string, which may have no content, is valid                         *)
C30_MatchersNonEmpty ==
  (pc = "done" /\ call.ret /\ lexer.result_symbol # "EOF") =>
    /\ call.marks > 0
    /\ lexer.mark_pos > call.start

---------------------------------------------------------------------------
(* The dispatcher against the single matchers                               *)

(* what a matcher called on its own returns on the text, from the cursor    *)
(* and state of create                                                      *)
Alone(f) ==
  Apply(f, input,
        Entry(create_test_lexer, tree_sitter_abc_external_scanner_create), {})

(* C31: with IDENTIFIER the only valid kind and a text that begins with an  *)
(* identifier, scan returns IDENTIFIER over the same characters as          *)
(* scan_identifier called on its own: the whole run                         *)
(* [a-zA-Z_][a-zA-Z0-9_-]*.                                                 *)
C31_IdentifierThroughDispatcher ==
  (/\ pc = "done"
   /\ call.fn = "scan"
   /\ valid_symbols = {"IDENTIFIER"}
   /\ is_identifier_start(EntryLookahead)) =>
    /\ call.ret
    /\ lexer.result_symbol = "IDENTIFIER"
    /\ lexer.mark_pos = Alone("scan_identifier").mark_pos

QuotedCall ==
  /\ pc = "done"
  /\ call.fn = "scan"
  /\ EntryLookahead = Ord["DQUOTE"]

(* where a quoted string ends when a backslash is an ordinary character:    *)
(* after the first quote behind the opening one, else before the first line *)
(* feed, else at the end of the text                                        *)
PlainQuoteEnd ==
  LET quote == Least({i \in 2..Len(input) : input[i] = Ord["DQUOTE"]}
                     \cup {Len(input) + 1})
  IN IF quote < FirstNewline THEN quote
     ELSE IF FirstNewline <= Len(input) THEN FirstNewline - 1
     ELSE Len(input)

(* C32: when CHORD_SYMBOL is valid and the lookahead is a double quote,     *)
(* scan returns CHORD_SYMBOL, also when ANNOTATION is valid; the token ends *)
(* with the first quote after the opening one, or before a line feed or at  *)
(* the end of the text, a backslash escaping nothing; a quoted string is    *)
(* returned as ANNOTATION only when CHORD_SYMBOL is not valid.              *)
C32_QuotedForms ==
  QuotedCall =>
    /\ "CHORD_SYMBOL" \in valid_symbols =>
         /\ call.ret
         /\ lexer.result_symbol = "CHORD_SYMBOL"
         /\ lexer.mark_pos = PlainQuoteEnd
         /\ lexer.pos = PlainQuoteEnd
    /\ (call.ret /\ lexer.result_symbol = "ANNOTATION") =>
         "CHORD_SYMBOL" \notin valid_symbols
    /\ valid_symbols = {"ANNOTATION"} =>
         call.ret /\ lexer.result_symbol = "ANNOTATION"

(* both kinds valid, and a quote after a backslash: the chord symbol ends   *)
(* there, where the annotation would go on                                  *)
C32_Witness ==
  /\ QuotedCall
  /\ valid_symbols = {"CHORD_SYMBOL", "ANNOTATION"}
  /\ input = <<Ord["DQUOTE"], Ord["BSLASH"], Ord["DQUOTE"], Ord["A"]>>
  /\ lexer.result_symbol = "CHORD_SYMBOL"
  /\ lexer.mark_pos = 3

(* ------------------------------------------------------------------------ *)
(* Header matchers with optional blanks before the colon                    *)
(* ------------------------------------------------------------------------ *)

HeaderLead(f) ==
  CASE f = "scan_lyric_header" -> {Ord["w"], Ord["W"]}
    [] f = "scan_symbol_header" -> {Ord["s"]}
    [] f = "scan_user_symbol_header" -> {Ord["U"]}
    [] f = "scan_macro_header" -> {Ord["m"]}
    [] f = "scan_info_continuation" -> {Ord["+"]}
    [] OTHER -> {}

(* a direct call of a header matcher on a text that starts with its lead *)
HeaderCall ==
  /\ pc = "done"
  /\ EntryLookahead \in HeaderLead(call.fn)

(* index of the first character behind the lead that is no blank *)
AfterBlanks ==
  Least({i \in 2..Len(input) : input[i] \notin WsChars} \cup {Len(input) + 1})

HasColon == AfterBlanks <= Len(input) /\ input[AfterBlanks] = Ord[":"]

(* the kind the matcher emits at the colon; "none" when the lyric header    *)
(* finds neither of its kinds applicable                                    *)
HeaderKind ==
  CASE call.fn = "scan_lyric_header" ->
         IF input[1] = Ord["W"] /\ "LY_SECT_HDR" \in valid_symbols
           THEN "LY_SECT_HDR"
         ELSE IF "LY_HDR" \in valid_symbols THEN "LY_HDR"
         ELSE "none"
    [] call.fn = "scan_symbol_header" -> "SY_HDR"
    [] call.fn = "scan_user_symbol_header" -> "USER_SY_HDR"
    [] call.fn = "scan_macro_header" -> "MACRO_HDR"
    [] call.fn = "scan_info_continuation" -> "INF_CTND"
    [] OTHER -> "none"

(* a blank between the letter and the colon, in a call of scan_info_header *)
InfoHeaderBlank ==
  /\ pc = "done"
  /\ call.fn = "scan_info_header"
  /\ Len(input) >= 2
  /\ input[2] \in WsChars

(* C33 as written: the lyric header matcher always emits at the colon,      *)
(* LY_SECT_HDR for 'W' when that kind is valid and LY_HDR otherwise.        *)
C33_LyricHeaderAlways ==
  (HeaderCall /\ call.fn = "scan_lyric_header" /\ HasColon) =>
    /\ call.ret
    /\ lexer.result_symbol =
         IF input[1] = Ord["W"] /\ "LY_SECT_HDR" \in valid_symbols
           THEN "LY_SECT_HDR" ELSE "LY_HDR"

(* C33: the lyric, symbol, user symbol, macro and continuation header       *)
(* matchers skip any run of blanks between the lead character and ':' and   *)
(* emit their kind with the token ending just after the ':'; without a ':'  *)
(* they return no match with the lead and the blanks consumed; 'W:' is      *)
(* LY_SECT_HDR when that kind is valid, else LY_HDR when LY_HDR is valid,   *)
(* 'w:' is LY_HDR when LY_HDR is valid, and with neither the call returns   *)
(* no match behind the ':'; scan_info_header emits no INF_HDR when a blank  *)
(* follows the letter.                                                      *)
C33_HeaderWhitespace ==
  /\ HeaderCall =>
       IF HasColon /\ HeaderKind # "none"
         THEN /\ call.ret
              /\ lexer.result_symbol = HeaderKind
              /\ lexer.mark_pos = AfterBlanks
              /\ lexer.pos = AfterBlanks
         ELSE /\ ~call.ret
              /\ lexer.pos = IF HasColon THEN AfterBlanks ELSE AfterBlanks - 1
  /\ InfoHeaderBlank => ~(call.ret /\ lexer.result_symbol = "INF_HDR")

(* a header with a blank and a tab before the colon *)
C33_Witness ==
  /\ HeaderCall
  /\ call.fn = "scan_user_symbol_header"
  /\ input = <<Ord["U"], Ord[" "], Ord["TAB"], Ord[":"]>>
  /\ call.ret
  /\ lexer.mark_pos = 4

(* 'W:' with only LY_HDR valid is a plain lyric header *)
C33_WitnessSection ==
  /\ HeaderCall
  /\ call.fn = "scan_lyric_header"
  /\ input[1] = Ord["W"]
  /\ HasColon
  /\ valid_symbols = {"LY_HDR"}
  /\ lexer.result_symbol = "LY_HDR"

(* ------------------------------------------------------------------------ *)
(* Digit runs through scan                                                  *)
(* ------------------------------------------------------------------------ *)

(* scan on a digit, with only kinds of a digit run valid *)
DigitCall ==
  /\ pc = "done"
  /\ call.fn = "scan"
  /\ is_digit(EntryLookahead)
  /\ valid_symbols # {}
  /\ valid_symbols \subseteq Range(DigitKinds)

FirstValidDigitKind ==
  DigitKinds[Least({i \in DOMAIN DigitKinds : DigitKinds[i] \in valid_symbols})]

(* C34: when the lookahead is a digit and only kinds of a digit run are     *)
(* valid, scan returns the first valid one in the order RHY_NUMER,          *)
(* RHY_DENOM, TUPLET_P, TUPLET_Q, TUPLET_R, REPEAT_NUMBER, NUMBER, and the  *)
(* token covers the whole run of digits.                                    *)
C34_DigitRunPriority ==
  DigitCall =>
    /\ call.ret
    /\ lexer.result_symbol = FirstValidDigitKind
    /\ lexer.mark_pos = RunLength(input, Digits)
    /\ lexer.pos = RunLength(input, Digits)

(* two digits, with a tuplet slot and the general number both valid *)
C34_Witness ==
  /\ DigitCall
  /\ valid_symbols = {"TUPLET_Q", "NUMBER"}
  /\ RunLength(input, Digits) = 2
  /\ lexer.result_symbol = "TUPLET_Q"
  /\ lexer.mark_pos = 2

(* ------------------------------------------------------------------------ *)
(* The audio thread of the helper                                           *)
(* ------------------------------------------------------------------------ *)

(* C35: the audio callback installed by play never accesses a session that  *)
(* has been destroyed: once destroy_session has erased a session, no        *)
(* invocation of the callback reads or writes it, whatever the interleaving *)
(* of the command thread and the audio thread.                              *)
C35_NoUseAfterDestroy == ~helper.app.audio.useAfterFree

(* ------------------------------------------------------------------------ *)
(* Commands and the state they leave                                        *)
(* ------------------------------------------------------------------------ *)

(* the step writes the response to a request with this command name *)
Answers(name) ==
  /\ helper'.written = helper.written + 1
  /\ helper'.response[1].line.json.type = "object"
  /\ contains(helper'.response[1].line.json, "cmd")
  /\ helper'.response[1].line.json.items["cmd"] = Str(name)

AnswersOk(name) == Answers(name) /\ helper'.response[1].resp.ok

AnswersError(name) == Answers(name) /\ ~helper'.response[1].resp.ok

(* C36: a create_session answered with an error leaves the session table    *)
(* as it was: no session is registered and nextSessionId is not advanced,   *)
(* whether the creation, the initialisation of the session or the           *)
(* initialisation of the audio output failed.                               *)
C36_FailedCreateLeavesTable ==
  [][AnswersError("create_session") =>
       /\ helper'.app.sessions = helper.app.sessions
       /\ helper'.app.nextSessionId = helper.app.nextSessionId]_vars

(* the line carries a string cmd that is a key of COMMAND_MAP *)
Recognised(line) ==
  /\ contains(line.json, "cmd")
  /\ line.json.items["cmd"].type = "string"
  /\ line.json.items["cmd"].v \in DOMAIN COMMAND_MAP

UnknownCommand(r) == r.resp.error = "Unknown command: " \o r.line.raw

(* C37: every command name of COMMAND_MAP, clear_track included, is         *)
(* answered by its own case of handleCommand; the error 'Unknown command'   *)
(* is returned only for a line that is not JSON or whose cmd is missing, no *)
(* string, or no key of COMMAND_MAP.                                        *)
C37_UnknownOnlyForUnrecognised ==
  (Written /\ UnknownCommand(LastResponse)) => ~Recognised(LastResponse.line)

(* the session the answered request names, before and after the step *)
Target == helper'.response[1].line.json.items["session_id"].v

Before == getSession(helper.app, Target)

After == getSession(helper'.app, Target)

(* C38: the playback state follows the responses: a play answered ok sets   *)
(* playing; a pause answered ok clears playing and keeps the position; a    *)
(* stop answered ok clears playing and resets the position to 0; a play     *)
(* answered with an error leaves the playing flag of the session false.     *)
C38_PlaybackFollowsResponses ==
  [][/\ AnswersOk("play") => After.playing
     /\ AnswersOk("pause") =>
          ~After.playing /\ After.position = Before.position
     /\ AnswersOk("stop") => ~After.playing /\ After.position = 0
     /\ (/\ AnswersError("play")
         /\ contains(helper'.response[1].line.json, "session_id")
         /\ helper'.response[1].line.json.items["session_id"].type = "number"
         /\ HasSession(helper.app, Target)
         /\ ~Before.playing) => ~After.playing]_vars

(* ------------------------------------------------------------------------ *)
(* The main loop of the helper                                              *)
(* ------------------------------------------------------------------------ *)

(* the step reads a line of stdin *)
ReadsLine == helper'.read = helper.read + 1

(* the line last answered was the quit command *)
QuitAnswered ==
  /\ Written
  /\ Recognised(LastResponse.line)
  /\ LastResponse.line.json.items["cmd"].v = "quit"
  /\ LastResponse.resp.ok

(* the response the step wrote is the one to the line it read *)
Answered ==
  /\ helper'.written = helper.written + 1
  /\ helper'.response[1].line.raw = helper'.line

(* C39: for every line of stdin that is not empty exactly one response is   *)
(* written, before the next line is read and in the order of the input; a   *)
(* line that is no JSON or names no known command is answered with ok false *)
(* and the loop goes on; after the response to quit no line is processed.   *)
C39_OneResponsePerLine ==
  [][/\ ReadsLine =>
          IF helper'.line = "" THEN helper'.written = helper.written
          ELSE /\ Answered
               /\ ~Recognised(helper'.response[1].line) =>
                    ~helper'.response[1].resp.ok /\ helper'.running
     /\ ~ReadsLine => helper'.written = helper.written
     /\ QuitAnswered => ~ReadsLine]_vars

=============================================================================
